---- MODULE Spec2Model ----
(***************************************************************************)
(* Buyee landed-cost calculator: src/buyee_landed_cost.py (the engine) and *)
(* src/app.py (the batch handler that consolidates packages).              *)
(*                                                                         *)
(* Numbers.  The source computes with Python floats; the model computes    *)
(* the same quantities exactly:                                            *)
(*   weight      whole numbers of 1/4 mg;  Grams(g) = 4000*g.  A weight    *)
(*               the code reads or looks up is a multiple of 4 units (a    *)
(*               whole number of mg: pages write weights with up to three  *)
(*               decimals), and so is a volumetric weight (L*W*H/5000 kg   *)
(*               is 800*L*W*H units).  A float sum that is not exact       *)
(*               stands one unit beside its exact value: the neighbouring  *)
(*               float, which a comparison tells from the exact value and  *)
(*               an amount does not.                                       *)
(*   length      whole cm                                                  *)
(*   rate        whole numbers of 1/10000 USD per JPY (0.0067 is 67)       *)
(*   amounts read from a page or a request (prices, declared values,      *)
(*               domestic shipping, the service fee): whole numbers of     *)
(*               1/100 JPY;  Yen(n) = 100*n                                *)
(*   amounts computed from them (quotes, conversions to USD, duty,         *)
(*               totals, savings): decimal numbers of any length, held     *)
(*               exactly (Jpy, Rate, Usd, Decimal make them)               *)
(* Text is a sequence of characters, each character a one-letter string;   *)
(* a non-ASCII character is written by its code point ("u30D6").           *)
(***************************************************************************)
EXTENDS Integers, Sequences, FiniteSets, TLC

\* ------------------------------------------------------------------ units
Grams(g) == 4000 * g

\* The exact weight a float stands for: the nearest multiple of 4 units.
NearestWeight(w) == 4 * ((w + 1) \div 4)

\* A whole number of JPY, in 1/100 JPY.
Yen(n) == 100 * n

\* -------------------------------------------------------- decimal numbers
\* A computed amount is a decimal number held exactly: its sign and its
\* digits in groups of four, the least significant group first, `scale` of
\* the groups after the decimal point (157.8191275 is the groups 2750, 8191,
\* 157 with scale 2).  No group of zeros is kept at either end, and zero has
\* no groups, so equal numbers are equal records.
RECURSIVE StripHigh(_)
StripHigh(limbs) ==
    IF limbs = <<>> THEN limbs
    ELSE IF limbs[Len(limbs)] # 0 THEN limbs
    ELSE StripHigh(SubSeq(limbs, 1, Len(limbs) - 1))

RECURSIVE StripLow(_, _)
\* <<groups, scale>> without the groups of zeros at the end of the fraction
StripLow(limbs, scale) ==
    IF scale = 0 \/ limbs = <<>> THEN <<limbs, scale>>
    ELSE IF Head(limbs) # 0 THEN <<limbs, scale>>
    ELSE StripLow(Tail(limbs), scale - 1)

Dec(neg, limbs, scale) ==
    LET low == StripLow(StripHigh(limbs), scale)
    IN  IF low[1] = <<>> THEN [neg |-> FALSE, limbs |-> <<>>, scale |-> 0]
        ELSE [neg |-> neg, limbs |-> low[1], scale |-> low[2]]

RECURSIVE LimbsOf(_)
\* The groups of a whole number n >= 0.
LimbsOf(n) == IF n = 0 THEN <<>> ELSE <<n % 10000>> \o LimbsOf(n \div 10000)

RECURSIVE MulLimbs(_, _, _)
\* groups * m + carry, for 0 <= m <= 10000
MulLimbs(limbs, m, carry) ==
    IF limbs = <<>> THEN LimbsOf(carry)
    ELSE <<(Head(limbs) * m + carry) % 10000>>
         \o MulLimbs(Tail(limbs), m, (Head(limbs) * m + carry) \div 10000)

RECURSIVE AddLimbs(_, _, _)
AddLimbs(a, b, carry) ==
    IF a = <<>> /\ b = <<>> THEN LimbsOf(carry)
    ELSE IF a = <<>> THEN AddLimbs(<<0>>, b, carry)
    ELSE IF b = <<>> THEN AddLimbs(a, <<0>>, carry)
    ELSE <<(Head(a) + Head(b) + carry) % 10000>>
         \o AddLimbs(Tail(a), Tail(b), (Head(a) + Head(b) + carry) \div 10000)

RECURSIVE SubLimbs(_, _, _)
\* a - b - borrow, for a >= b + borrow
SubLimbs(a, b, borrow) ==
    IF a = <<>> THEN <<>>
    ELSE IF b = <<>> THEN SubLimbs(a, <<0>>, borrow)
    ELSE <<(Head(a) - Head(b) - borrow + 10000) % 10000>>
         \o SubLimbs(Tail(a), Tail(b), IF Head(a) - Head(b) - borrow < 0 THEN 1 ELSE 0)

RECURSIVE CmpLimbs(_, _)
\* -1, 0 or 1 as a < b, a = b or a > b, for a and b of one length
CmpLimbs(a, b) ==
    IF a = <<>> THEN 0
    ELSE IF a[Len(a)] < b[Len(b)] THEN -1
    ELSE IF a[Len(a)] > b[Len(b)] THEN 1
    ELSE CmpLimbs(SubSeq(a, 1, Len(a) - 1), SubSeq(b, 1, Len(b) - 1))

RECURSIVE MulAll(_, _)
\* The product of two numbers, group by group.
MulAll(a, b) ==
    IF b = <<>> THEN <<>>
    ELSE IF Len(b) = 1 THEN MulLimbs(a, b[1], 0)
    ELSE IF Len(a) = 1 THEN MulLimbs(b, a[1], 0)
    ELSE AddLimbs(MulLimbs(a, Head(b), 0), <<0>> \o MulAll(a, Tail(b)), 0)

\* The groups of x at a scale >= its own (none for zero).
AtScale(x, scale) ==
    IF x.limbs = <<>> THEN <<>> ELSE [i \in 1..(scale - x.scale) |-> 0] \o x.limbs

\* n / 10^digits, for a whole number n and 0 <= digits
Decimal(n, digits) ==
    Dec(n < 0,
        MulLimbs(LimbsOf(IF n < 0 THEN -n ELSE n),
                 CASE (4 - (digits % 4)) % 4 = 0 -> 1
                   [] (4 - (digits % 4)) % 4 = 1 -> 10
                   [] (4 - (digits % 4)) % 4 = 2 -> 100
                   [] (4 - (digits % 4)) % 4 = 3 -> 1000,
                 0),
        (digits + 3) \div 4)

DecNeg(x) == IF x.limbs = <<>> THEN x ELSE [x EXCEPT !.neg = ~x.neg]

\* x + y
DecAdd(x, y) ==
    LET scale == IF x.scale >= y.scale THEN x.scale ELSE y.scale
        a == AtScale(x, scale)
        b == AtScale(y, scale)
        \* -1, 0 or 1 as |x| < |y|, |x| = |y| or |x| > |y|
        cmp == IF Len(a) < Len(b) THEN -1 ELSE IF Len(a) > Len(b) THEN 1 ELSE CmpLimbs(a, b)
    IN  IF x.neg = y.neg THEN Dec(x.neg, AddLimbs(a, b, 0), scale)
        ELSE IF cmp >= 0 THEN Dec(x.neg, SubLimbs(a, b, 0), scale)
        ELSE Dec(y.neg, SubLimbs(b, a, 0), scale)

\* x - y
DecSub(x, y) == DecAdd(x, DecNeg(y))

\* x * y
DecMul(x, y) == Dec(x.neg # y.neg, MulAll(x.limbs, y.limbs), x.scale + y.scale)

\* x <= y, x > 0
DecLeq(x, y) == ~DecSub(y, x).neg
DecPositive(x) == x.limbs # <<>> /\ ~x.neg

RECURSIVE DecSum(_)
\* sum(...) of a sequence of amounts
DecSum(s) == IF s = <<>> THEN Decimal(0, 0) ELSE DecAdd(Head(s), DecSum(Tail(s)))

\* An amount of JPY given in 1/100 JPY, a rate given in 1/10000 USD per JPY,
\* and a whole number of USD.
Jpy(hundredths) == Decimal(hundredths, 2)
Rate(rate) == Decimal(rate, 4)
Usd(n) == Decimal(n, 0)

\* The whole part of |x|, and whether its fraction is below, at or above 1/2
\* (-1, 0, 1).
WholePart(x) ==
    IF Len(x.limbs) > x.scale
    THEN Dec(FALSE, SubSeq(x.limbs, x.scale + 1, Len(x.limbs)), 0)
    ELSE Decimal(0, 0)

HalfCompare(x) ==
    LET top == IF x.scale = 0 \/ Len(x.limbs) < x.scale THEN 0 ELSE x.limbs[x.scale]
    IN  IF top < 5000 THEN -1
        ELSE IF top > 5000 \/ x.scale > 1 THEN 1
        ELSE 0

\* round(x) of an amount the float holds exactly: the nearest whole number, a
\* tie to the even one.
RoundJpyExact(x) ==
    LET below == WholePart(x)
        above == DecAdd(below, Decimal(1, 0))
        even == below.limbs = <<>> \/ below.limbs[1] % 2 = 0
        nearest == IF HalfCompare(x) < 0 THEN below
                   ELSE IF HalfCompare(x) > 0 THEN above
                   ELSE IF even THEN below ELSE above
    IN  IF x.neg THEN DecNeg(nearest) ELSE nearest

\* round(x) of a computed amount: the float x is not the exact amount, so a
\* value midway between two whole numbers may go either way.
RoundJpy(x) ==
    LET below == WholePart(x)
        above == DecAdd(below, Decimal(1, 0))
        nearest == IF HalfCompare(x) < 0 THEN {below}
                   ELSE IF HalfCompare(x) > 0 THEN {above}
                   ELSE {below, above}
    IN  { IF x.neg THEN DecNeg(r) ELSE r : r \in nearest }

\* self.exchange_rate before the first calculate_landed_cost (None).
None == -1

\* Python's round(x) of x = n/d >= 0: the nearest integer, a tie to the even one.
RoundHalfEven(n, d) ==
    LET q == n \div d
        r == n % d
    IN  IF 2 * r < d THEN q
        ELSE IF 2 * r > d THEN q + 1
        ELSE IF q % 2 = 0 THEN q ELSE q + 1

Max2(a, b) == IF a >= b THEN a ELSE b

\* F(v), with v evaluated once: a local variable of the code holding the value v.
Let(v, F(_)) == CHOOSE r \in { F(x) : x \in {v} } : TRUE

RECURSIVE SeqSum(_)
SeqSum(s) == IF s = <<>> THEN 0 ELSE Head(s) + SeqSum(Tail(s))

RECURSIVE SeqMax(_)
\* max(..., default=0.0) over a sequence of non-negative numbers
SeqMax(s) == IF s = <<>> THEN 0 ELSE Max2(Head(s), SeqMax(Tail(s)))

\* ------------------------------------------------------- category classifier
UpperCase == <<"A","B","C","D","E","F","G","H","I","J","K","L","M","N","O","P","Q","R","S","T","U","V","W","X","Y","Z">>
LowerCase == <<"a","b","c","d","e","f","g","h","i","j","k","l","m","n","o","p","q","r","s","t","u","v","w","x","y","z">>

\* The characters outside ASCII that str.lower() replaces by one other character
\* (Unicode 14.0.0), and what it replaces them by, position by position.
UpperOther ==
    <<
    "u00C0","u00C1","u00C2","u00C3","u00C4","u00C5","u00C6","u00C7","u00C8","u00C9","u00CA","u00CB",
    "u00CC","u00CD","u00CE","u00CF","u00D0","u00D1","u00D2","u00D3","u00D4","u00D5","u00D6","u00D8",
    "u00D9","u00DA","u00DB","u00DC","u00DD","u00DE","u0100","u0102","u0104","u0106","u0108","u010A",
    "u010C","u010E","u0110","u0112","u0114","u0116","u0118","u011A","u011C","u011E","u0120","u0122",
    "u0124","u0126","u0128","u012A","u012C","u012E","u0132","u0134","u0136","u0139","u013B","u013D",
    "u013F","u0141","u0143","u0145","u0147","u014A","u014C","u014E","u0150","u0152","u0154","u0156",
    "u0158","u015A","u015C","u015E","u0160","u0162","u0164","u0166","u0168","u016A","u016C","u016E",
    "u0170","u0172","u0174","u0176","u0178","u0179","u017B","u017D","u0181","u0182","u0184","u0186",
    "u0187","u0189","u018A","u018B","u018E","u018F","u0190","u0191","u0193","u0194","u0196","u0197",
    "u0198","u019C","u019D","u019F","u01A0","u01A2","u01A4","u01A6","u01A7","u01A9","u01AC","u01AE",
    "u01AF","u01B1","u01B2","u01B3","u01B5","u01B7","u01B8","u01BC","u01C4","u01C5","u01C7","u01C8",
    "u01CA","u01CB","u01CD","u01CF","u01D1","u01D3","u01D5","u01D7","u01D9","u01DB","u01DE","u01E0",
    "u01E2","u01E4","u01E6","u01E8","u01EA","u01EC","u01EE","u01F1","u01F2","u01F4","u01F6","u01F7",
    "u01F8","u01FA","u01FC","u01FE","u0200","u0202","u0204","u0206","u0208","u020A","u020C","u020E",
    "u0210","u0212","u0214","u0216","u0218","u021A","u021C","u021E","u0220","u0222","u0224","u0226",
    "u0228","u022A","u022C","u022E","u0230","u0232","u023A","u023B","u023D","u023E","u0241","u0243",
    "u0244","u0245","u0246","u0248","u024A","u024C","u024E","u0370","u0372","u0376","u037F","u0386",
    "u0388","u0389","u038A","u038C","u038E","u038F","u0391","u0392","u0393","u0394","u0395","u0396",
    "u0397","u0398","u0399","u039A","u039B","u039C","u039D","u039E","u039F","u03A0","u03A1","u03A4",
    "u03A5","u03A6","u03A7","u03A8","u03A9","u03AA","u03AB","u03CF","u03D8","u03DA","u03DC","u03DE",
    "u03E0","u03E2","u03E4","u03E6","u03E8","u03EA","u03EC","u03EE","u03F4","u03F7","u03F9","u03FA",
    "u03FD","u03FE","u03FF","u0400","u0401","u0402","u0403","u0404","u0405","u0406","u0407","u0408",
    "u0409","u040A","u040B","u040C","u040D","u040E","u040F","u0410","u0411","u0412","u0413","u0414",
    "u0415","u0416","u0417","u0418","u0419","u041A","u041B","u041C","u041D","u041E","u041F","u0420",
    "u0421","u0422","u0423","u0424","u0425","u0426","u0427","u0428","u0429","u042A","u042B","u042C",
    "u042D","u042E","u042F","u0460","u0462","u0464","u0466","u0468","u046A","u046C","u046E","u0470",
    "u0472","u0474","u0476","u0478","u047A","u047C","u047E","u0480","u048A","u048C","u048E","u0490",
    "u0492","u0494","u0496","u0498","u049A","u049C","u049E","u04A0","u04A2","u04A4","u04A6","u04A8",
    "u04AA","u04AC","u04AE","u04B0","u04B2","u04B4","u04B6","u04B8","u04BA","u04BC","u04BE","u04C0",
    "u04C1","u04C3","u04C5","u04C7","u04C9","u04CB","u04CD","u04D0","u04D2","u04D4","u04D6","u04D8",
    "u04DA","u04DC","u04DE","u04E0","u04E2","u04E4","u04E6","u04E8","u04EA","u04EC","u04EE","u04F0",
    "u04F2","u04F4","u04F6","u04F8","u04FA","u04FC","u04FE","u0500","u0502","u0504","u0506","u0508",
    "u050A","u050C","u050E","u0510","u0512","u0514","u0516","u0518","u051A","u051C","u051E","u0520",
    "u0522","u0524","u0526","u0528","u052A","u052C","u052E","u0531","u0532","u0533","u0534","u0535",
    "u0536","u0537","u0538","u0539","u053A","u053B","u053C","u053D","u053E","u053F","u0540","u0541",
    "u0542","u0543","u0544","u0545","u0546","u0547","u0548","u0549","u054A","u054B","u054C","u054D",
    "u054E","u054F","u0550","u0551","u0552","u0553","u0554","u0555","u0556","u10A0","u10A1","u10A2",
    "u10A3","u10A4","u10A5","u10A6","u10A7","u10A8","u10A9","u10AA","u10AB","u10AC","u10AD","u10AE",
    "u10AF","u10B0","u10B1","u10B2","u10B3","u10B4","u10B5","u10B6","u10B7","u10B8","u10B9","u10BA",
    "u10BB","u10BC","u10BD","u10BE","u10BF","u10C0","u10C1","u10C2","u10C3","u10C4","u10C5","u10C7",
    "u10CD","u13A0","u13A1","u13A2","u13A3","u13A4","u13A5","u13A6","u13A7","u13A8","u13A9","u13AA",
    "u13AB","u13AC","u13AD","u13AE","u13AF","u13B0","u13B1","u13B2","u13B3","u13B4","u13B5","u13B6",
    "u13B7","u13B8","u13B9","u13BA","u13BB","u13BC","u13BD","u13BE","u13BF","u13C0","u13C1","u13C2",
    "u13C3","u13C4","u13C5","u13C6","u13C7","u13C8","u13C9","u13CA","u13CB","u13CC","u13CD","u13CE",
    "u13CF","u13D0","u13D1","u13D2","u13D3","u13D4","u13D5","u13D6","u13D7","u13D8","u13D9","u13DA",
    "u13DB","u13DC","u13DD","u13DE","u13DF","u13E0","u13E1","u13E2","u13E3","u13E4","u13E5","u13E6",
    "u13E7","u13E8","u13E9","u13EA","u13EB","u13EC","u13ED","u13EE","u13EF","u13F0","u13F1","u13F2",
    "u13F3","u13F4","u13F5","u1C90","u1C91","u1C92","u1C93","u1C94","u1C95","u1C96","u1C97","u1C98",
    "u1C99","u1C9A","u1C9B","u1C9C","u1C9D","u1C9E","u1C9F","u1CA0","u1CA1","u1CA2","u1CA3","u1CA4",
    "u1CA5","u1CA6","u1CA7","u1CA8","u1CA9","u1CAA","u1CAB","u1CAC","u1CAD","u1CAE","u1CAF","u1CB0",
    "u1CB1","u1CB2","u1CB3","u1CB4","u1CB5","u1CB6","u1CB7","u1CB8","u1CB9","u1CBA","u1CBD","u1CBE",
    "u1CBF","u1E00","u1E02","u1E04","u1E06","u1E08","u1E0A","u1E0C","u1E0E","u1E10","u1E12","u1E14",
    "u1E16","u1E18","u1E1A","u1E1C","u1E1E","u1E20","u1E22","u1E24","u1E26","u1E28","u1E2A","u1E2C",
    "u1E2E","u1E30","u1E32","u1E34","u1E36","u1E38","u1E3A","u1E3C","u1E3E","u1E40","u1E42","u1E44",
    "u1E46","u1E48","u1E4A","u1E4C","u1E4E","u1E50","u1E52","u1E54","u1E56","u1E58","u1E5A","u1E5C",
    "u1E5E","u1E60","u1E62","u1E64","u1E66","u1E68","u1E6A","u1E6C","u1E6E","u1E70","u1E72","u1E74",
    "u1E76","u1E78","u1E7A","u1E7C","u1E7E","u1E80","u1E82","u1E84","u1E86","u1E88","u1E8A","u1E8C",
    "u1E8E","u1E90","u1E92","u1E94","u1E9E","u1EA0","u1EA2","u1EA4","u1EA6","u1EA8","u1EAA","u1EAC",
    "u1EAE","u1EB0","u1EB2","u1EB4","u1EB6","u1EB8","u1EBA","u1EBC","u1EBE","u1EC0","u1EC2","u1EC4",
    "u1EC6","u1EC8","u1ECA","u1ECC","u1ECE","u1ED0","u1ED2","u1ED4","u1ED6","u1ED8","u1EDA","u1EDC",
    "u1EDE","u1EE0","u1EE2","u1EE4","u1EE6","u1EE8","u1EEA","u1EEC","u1EEE","u1EF0","u1EF2","u1EF4",
    "u1EF6","u1EF8","u1EFA","u1EFC","u1EFE","u1F08","u1F09","u1F0A","u1F0B","u1F0C","u1F0D","u1F0E",
    "u1F0F","u1F18","u1F19","u1F1A","u1F1B","u1F1C","u1F1D","u1F28","u1F29","u1F2A","u1F2B","u1F2C",
    "u1F2D","u1F2E","u1F2F","u1F38","u1F39","u1F3A","u1F3B","u1F3C","u1F3D","u1F3E","u1F3F","u1F48",
    "u1F49","u1F4A","u1F4B","u1F4C","u1F4D","u1F59","u1F5B","u1F5D","u1F5F","u1F68","u1F69","u1F6A",
    "u1F6B","u1F6C","u1F6D","u1F6E","u1F6F","u1F88","u1F89","u1F8A","u1F8B","u1F8C","u1F8D","u1F8E",
    "u1F8F","u1F98","u1F99","u1F9A","u1F9B","u1F9C","u1F9D","u1F9E","u1F9F","u1FA8","u1FA9","u1FAA",
    "u1FAB","u1FAC","u1FAD","u1FAE","u1FAF","u1FB8","u1FB9","u1FBA","u1FBB","u1FBC","u1FC8","u1FC9",
    "u1FCA","u1FCB","u1FCC","u1FD8","u1FD9","u1FDA","u1FDB","u1FE8","u1FE9","u1FEA","u1FEB","u1FEC",
    "u1FF8","u1FF9","u1FFA","u1FFB","u1FFC","u2126","u212A","u212B","u2132","u2160","u2161","u2162",
    "u2163","u2164","u2165","u2166","u2167","u2168","u2169","u216A","u216B","u216C","u216D","u216E",
    "u216F","u2183","u24B6","u24B7","u24B8","u24B9","u24BA","u24BB","u24BC","u24BD","u24BE","u24BF",
    "u24C0","u24C1","u24C2","u24C3","u24C4","u24C5","u24C6","u24C7","u24C8","u24C9","u24CA","u24CB",
    "u24CC","u24CD","u24CE","u24CF","u2C00","u2C01","u2C02","u2C03","u2C04","u2C05","u2C06","u2C07",
    "u2C08","u2C09","u2C0A","u2C0B","u2C0C","u2C0D","u2C0E","u2C0F","u2C10","u2C11","u2C12","u2C13",
    "u2C14","u2C15","u2C16","u2C17","u2C18","u2C19","u2C1A","u2C1B","u2C1C","u2C1D","u2C1E","u2C1F",
    "u2C20","u2C21","u2C22","u2C23","u2C24","u2C25","u2C26","u2C27","u2C28","u2C29","u2C2A","u2C2B",
    "u2C2C","u2C2D","u2C2E","u2C2F","u2C60","u2C62","u2C63","u2C64","u2C67","u2C69","u2C6B","u2C6D",
    "u2C6E","u2C6F","u2C70","u2C72","u2C75","u2C7E","u2C7F","u2C80","u2C82","u2C84","u2C86","u2C88",
    "u2C8A","u2C8C","u2C8E","u2C90","u2C92","u2C94","u2C96","u2C98","u2C9A","u2C9C","u2C9E","u2CA0",
    "u2CA2","u2CA4","u2CA6","u2CA8","u2CAA","u2CAC","u2CAE","u2CB0","u2CB2","u2CB4","u2CB6","u2CB8",
    "u2CBA","u2CBC","u2CBE","u2CC0","u2CC2","u2CC4","u2CC6","u2CC8","u2CCA","u2CCC","u2CCE","u2CD0",
    "u2CD2","u2CD4","u2CD6","u2CD8","u2CDA","u2CDC","u2CDE","u2CE0","u2CE2","u2CEB","u2CED","u2CF2",
    "uA640","uA642","uA644","uA646","uA648","uA64A","uA64C","uA64E","uA650","uA652","uA654","uA656",
    "uA658","uA65A","uA65C","uA65E","uA660","uA662","uA664","uA666","uA668","uA66A","uA66C","uA680",
    "uA682","uA684","uA686","uA688","uA68A","uA68C","uA68E","uA690","uA692","uA694","uA696","uA698",
    "uA69A","uA722","uA724","uA726","uA728","uA72A","uA72C","uA72E","uA732","uA734","uA736","uA738",
    "uA73A","uA73C","uA73E","uA740","uA742","uA744","uA746","uA748","uA74A","uA74C","uA74E","uA750",
    "uA752","uA754","uA756","uA758","uA75A","uA75C","uA75E","uA760","uA762","uA764","uA766","uA768",
    "uA76A","uA76C","uA76E","uA779","uA77B","uA77D","uA77E","uA780","uA782","uA784","uA786","uA78B",
    "uA78D","uA790","uA792","uA796","uA798","uA79A","uA79C","uA79E","uA7A0","uA7A2","uA7A4","uA7A6",
    "uA7A8","uA7AA","uA7AB","uA7AC","uA7AD","uA7AE","uA7B0","uA7B1","uA7B2","uA7B3","uA7B4","uA7B6",
    "uA7B8","uA7BA","uA7BC","uA7BE","uA7C0","uA7C2","uA7C4","uA7C5","uA7C6","uA7C7","uA7C9","uA7D0",
    "uA7D6","uA7D8","uA7F5","uFF21","uFF22","uFF23","uFF24","uFF25","uFF26","uFF27","uFF28","uFF29",
    "uFF2A","uFF2B","uFF2C","uFF2D","uFF2E","uFF2F","uFF30","uFF31","uFF32","uFF33","uFF34","uFF35",
    "uFF36","uFF37","uFF38","uFF39","uFF3A","u10400","u10401","u10402","u10403","u10404","u10405",
    "u10406","u10407","u10408","u10409","u1040A","u1040B","u1040C","u1040D","u1040E","u1040F",
    "u10410","u10411","u10412","u10413","u10414","u10415","u10416","u10417","u10418","u10419",
    "u1041A","u1041B","u1041C","u1041D","u1041E","u1041F","u10420","u10421","u10422","u10423",
    "u10424","u10425","u10426","u10427","u104B0","u104B1","u104B2","u104B3","u104B4","u104B5",
    "u104B6","u104B7","u104B8","u104B9","u104BA","u104BB","u104BC","u104BD","u104BE","u104BF",
    "u104C0","u104C1","u104C2","u104C3","u104C4","u104C5","u104C6","u104C7","u104C8","u104C9",
    "u104CA","u104CB","u104CC","u104CD","u104CE","u104CF","u104D0","u104D1","u104D2","u104D3",
    "u10570","u10571","u10572","u10573","u10574","u10575","u10576","u10577","u10578","u10579",
    "u1057A","u1057C","u1057D","u1057E","u1057F","u10580","u10581","u10582","u10583","u10584",
    "u10585","u10586","u10587","u10588","u10589","u1058A","u1058C","u1058D","u1058E","u1058F",
    "u10590","u10591","u10592","u10594","u10595","u10C80","u10C81","u10C82","u10C83","u10C84",
    "u10C85","u10C86","u10C87","u10C88","u10C89","u10C8A","u10C8B","u10C8C","u10C8D","u10C8E",
    "u10C8F","u10C90","u10C91","u10C92","u10C93","u10C94","u10C95","u10C96","u10C97","u10C98",
    "u10C99","u10C9A","u10C9B","u10C9C","u10C9D","u10C9E","u10C9F","u10CA0","u10CA1","u10CA2",
    "u10CA3","u10CA4","u10CA5","u10CA6","u10CA7","u10CA8","u10CA9","u10CAA","u10CAB","u10CAC",
    "u10CAD","u10CAE","u10CAF","u10CB0","u10CB1","u10CB2","u118A0","u118A1","u118A2","u118A3",
    "u118A4","u118A5","u118A6","u118A7","u118A8","u118A9","u118AA","u118AB","u118AC","u118AD",
    "u118AE","u118AF","u118B0","u118B1","u118B2","u118B3","u118B4","u118B5","u118B6","u118B7",
    "u118B8","u118B9","u118BA","u118BB","u118BC","u118BD","u118BE","u118BF","u16E40","u16E41",
    "u16E42","u16E43","u16E44","u16E45","u16E46","u16E47","u16E48","u16E49","u16E4A","u16E4B",
    "u16E4C","u16E4D","u16E4E","u16E4F","u16E50","u16E51","u16E52","u16E53","u16E54","u16E55",
    "u16E56","u16E57","u16E58","u16E59","u16E5A","u16E5B","u16E5C","u16E5D","u16E5E","u16E5F",
    "u1E900","u1E901","u1E902","u1E903","u1E904","u1E905","u1E906","u1E907","u1E908","u1E909",
    "u1E90A","u1E90B","u1E90C","u1E90D","u1E90E","u1E90F","u1E910","u1E911","u1E912","u1E913",
    "u1E914","u1E915","u1E916","u1E917","u1E918","u1E919","u1E91A","u1E91B","u1E91C","u1E91D",
    "u1E91E","u1E91F","u1E920","u1E921"
    >>

LowerOther ==
    <<
    "u00E0","u00E1","u00E2","u00E3","u00E4","u00E5","u00E6","u00E7","u00E8","u00E9","u00EA","u00EB",
    "u00EC","u00ED","u00EE","u00EF","u00F0","u00F1","u00F2","u00F3","u00F4","u00F5","u00F6","u00F8",
    "u00F9","u00FA","u00FB","u00FC","u00FD","u00FE","u0101","u0103","u0105","u0107","u0109","u010B",
    "u010D","u010F","u0111","u0113","u0115","u0117","u0119","u011B","u011D","u011F","u0121","u0123",
    "u0125","u0127","u0129","u012B","u012D","u012F","u0133","u0135","u0137","u013A","u013C","u013E",
    "u0140","u0142","u0144","u0146","u0148","u014B","u014D","u014F","u0151","u0153","u0155","u0157",
    "u0159","u015B","u015D","u015F","u0161","u0163","u0165","u0167","u0169","u016B","u016D","u016F",
    "u0171","u0173","u0175","u0177","u00FF","u017A","u017C","u017E","u0253","u0183","u0185","u0254",
    "u0188","u0256","u0257","u018C","u01DD","u0259","u025B","u0192","u0260","u0263","u0269","u0268",
    "u0199","u026F","u0272","u0275","u01A1","u01A3","u01A5","u0280","u01A8","u0283","u01AD","u0288",
    "u01B0","u028A","u028B","u01B4","u01B6","u0292","u01B9","u01BD","u01C6","u01C6","u01C9","u01C9",
    "u01CC","u01CC","u01CE","u01D0","u01D2","u01D4","u01D6","u01D8","u01DA","u01DC","u01DF","u01E1",
    "u01E3","u01E5","u01E7","u01E9","u01EB","u01ED","u01EF","u01F3","u01F3","u01F5","u0195","u01BF",
    "u01F9","u01FB","u01FD","u01FF","u0201","u0203","u0205","u0207","u0209","u020B","u020D","u020F",
    "u0211","u0213","u0215","u0217","u0219","u021B","u021D","u021F","u019E","u0223","u0225","u0227",
    "u0229","u022B","u022D","u022F","u0231","u0233","u2C65","u023C","u019A","u2C66","u0242","u0180",
    "u0289","u028C","u0247","u0249","u024B","u024D","u024F","u0371","u0373","u0377","u03F3","u03AC",
    "u03AD","u03AE","u03AF","u03CC","u03CD","u03CE","u03B1","u03B2","u03B3","u03B4","u03B5","u03B6",
    "u03B7","u03B8","u03B9","u03BA","u03BB","u03BC","u03BD","u03BE","u03BF","u03C0","u03C1","u03C4",
    "u03C5","u03C6","u03C7","u03C8","u03C9","u03CA","u03CB","u03D7","u03D9","u03DB","u03DD","u03DF",
    "u03E1","u03E3","u03E5","u03E7","u03E9","u03EB","u03ED","u03EF","u03B8","u03F8","u03F2","u03FB",
    "u037B","u037C","u037D","u0450","u0451","u0452","u0453","u0454","u0455","u0456","u0457","u0458",
    "u0459","u045A","u045B","u045C","u045D","u045E","u045F","u0430","u0431","u0432","u0433","u0434",
    "u0435","u0436","u0437","u0438","u0439","u043A","u043B","u043C","u043D","u043E","u043F","u0440",
    "u0441","u0442","u0443","u0444","u0445","u0446","u0447","u0448","u0449","u044A","u044B","u044C",
    "u044D","u044E","u044F","u0461","u0463","u0465","u0467","u0469","u046B","u046D","u046F","u0471",
    "u0473","u0475","u0477","u0479","u047B","u047D","u047F","u0481","u048B","u048D","u048F","u0491",
    "u0493","u0495","u0497","u0499","u049B","u049D","u049F","u04A1","u04A3","u04A5","u04A7","u04A9",
    "u04AB","u04AD","u04AF","u04B1","u04B3","u04B5","u04B7","u04B9","u04BB","u04BD","u04BF","u04CF",
    "u04C2","u04C4","u04C6","u04C8","u04CA","u04CC","u04CE","u04D1","u04D3","u04D5","u04D7","u04D9",
    "u04DB","u04DD","u04DF","u04E1","u04E3","u04E5","u04E7","u04E9","u04EB","u04ED","u04EF","u04F1",
    "u04F3","u04F5","u04F7","u04F9","u04FB","u04FD","u04FF","u0501","u0503","u0505","u0507","u0509",
    "u050B","u050D","u050F","u0511","u0513","u0515","u0517","u0519","u051B","u051D","u051F","u0521",
    "u0523","u0525","u0527","u0529","u052B","u052D","u052F","u0561","u0562","u0563","u0564","u0565",
    "u0566","u0567","u0568","u0569","u056A","u056B","u056C","u056D","u056E","u056F","u0570","u0571",
    "u0572","u0573","u0574","u0575","u0576","u0577","u0578","u0579","u057A","u057B","u057C","u057D",
    "u057E","u057F","u0580","u0581","u0582","u0583","u0584","u0585","u0586","u2D00","u2D01","u2D02",
    "u2D03","u2D04","u2D05","u2D06","u2D07","u2D08","u2D09","u2D0A","u2D0B","u2D0C","u2D0D","u2D0E",
    "u2D0F","u2D10","u2D11","u2D12","u2D13","u2D14","u2D15","u2D16","u2D17","u2D18","u2D19","u2D1A",
    "u2D1B","u2D1C","u2D1D","u2D1E","u2D1F","u2D20","u2D21","u2D22","u2D23","u2D24","u2D25","u2D27",
    "u2D2D","uAB70","uAB71","uAB72","uAB73","uAB74","uAB75","uAB76","uAB77","uAB78","uAB79","uAB7A",
    "uAB7B","uAB7C","uAB7D","uAB7E","uAB7F","uAB80","uAB81","uAB82","uAB83","uAB84","uAB85","uAB86",
    "uAB87","uAB88","uAB89","uAB8A","uAB8B","uAB8C","uAB8D","uAB8E","uAB8F","uAB90","uAB91","uAB92",
    "uAB93","uAB94","uAB95","uAB96","uAB97","uAB98","uAB99","uAB9A","uAB9B","uAB9C","uAB9D","uAB9E",
    "uAB9F","uABA0","uABA1","uABA2","uABA3","uABA4","uABA5","uABA6","uABA7","uABA8","uABA9","uABAA",
    "uABAB","uABAC","uABAD","uABAE","uABAF","uABB0","uABB1","uABB2","uABB3","uABB4","uABB5","uABB6",
    "uABB7","uABB8","uABB9","uABBA","uABBB","uABBC","uABBD","uABBE","uABBF","u13F8","u13F9","u13FA",
    "u13FB","u13FC","u13FD","u10D0","u10D1","u10D2","u10D3","u10D4","u10D5","u10D6","u10D7","u10D8",
    "u10D9","u10DA","u10DB","u10DC","u10DD","u10DE","u10DF","u10E0","u10E1","u10E2","u10E3","u10E4",
    "u10E5","u10E6","u10E7","u10E8","u10E9","u10EA","u10EB","u10EC","u10ED","u10EE","u10EF","u10F0",
    "u10F1","u10F2","u10F3","u10F4","u10F5","u10F6","u10F7","u10F8","u10F9","u10FA","u10FD","u10FE",
    "u10FF","u1E01","u1E03","u1E05","u1E07","u1E09","u1E0B","u1E0D","u1E0F","u1E11","u1E13","u1E15",
    "u1E17","u1E19","u1E1B","u1E1D","u1E1F","u1E21","u1E23","u1E25","u1E27","u1E29","u1E2B","u1E2D",
    "u1E2F","u1E31","u1E33","u1E35","u1E37","u1E39","u1E3B","u1E3D","u1E3F","u1E41","u1E43","u1E45",
    "u1E47","u1E49","u1E4B","u1E4D","u1E4F","u1E51","u1E53","u1E55","u1E57","u1E59","u1E5B","u1E5D",
    "u1E5F","u1E61","u1E63","u1E65","u1E67","u1E69","u1E6B","u1E6D","u1E6F","u1E71","u1E73","u1E75",
    "u1E77","u1E79","u1E7B","u1E7D","u1E7F","u1E81","u1E83","u1E85","u1E87","u1E89","u1E8B","u1E8D",
    "u1E8F","u1E91","u1E93","u1E95","u00DF","u1EA1","u1EA3","u1EA5","u1EA7","u1EA9","u1EAB","u1EAD",
    "u1EAF","u1EB1","u1EB3","u1EB5","u1EB7","u1EB9","u1EBB","u1EBD","u1EBF","u1EC1","u1EC3","u1EC5",
    "u1EC7","u1EC9","u1ECB","u1ECD","u1ECF","u1ED1","u1ED3","u1ED5","u1ED7","u1ED9","u1EDB","u1EDD",
    "u1EDF","u1EE1","u1EE3","u1EE5","u1EE7","u1EE9","u1EEB","u1EED","u1EEF","u1EF1","u1EF3","u1EF5",
    "u1EF7","u1EF9","u1EFB","u1EFD","u1EFF","u1F00","u1F01","u1F02","u1F03","u1F04","u1F05","u1F06",
    "u1F07","u1F10","u1F11","u1F12","u1F13","u1F14","u1F15","u1F20","u1F21","u1F22","u1F23","u1F24",
    "u1F25","u1F26","u1F27","u1F30","u1F31","u1F32","u1F33","u1F34","u1F35","u1F36","u1F37","u1F40",
    "u1F41","u1F42","u1F43","u1F44","u1F45","u1F51","u1F53","u1F55","u1F57","u1F60","u1F61","u1F62",
    "u1F63","u1F64","u1F65","u1F66","u1F67","u1F80","u1F81","u1F82","u1F83","u1F84","u1F85","u1F86",
    "u1F87","u1F90","u1F91","u1F92","u1F93","u1F94","u1F95","u1F96","u1F97","u1FA0","u1FA1","u1FA2",
    "u1FA3","u1FA4","u1FA5","u1FA6","u1FA7","u1FB0","u1FB1","u1F70","u1F71","u1FB3","u1F72","u1F73",
    "u1F74","u1F75","u1FC3","u1FD0","u1FD1","u1F76","u1F77","u1FE0","u1FE1","u1F7A","u1F7B","u1FE5",
    "u1F78","u1F79","u1F7C","u1F7D","u1FF3","u03C9","k","u00E5","u214E","u2170","u2171","u2172",
    "u2173","u2174","u2175","u2176","u2177","u2178","u2179","u217A","u217B","u217C","u217D","u217E",
    "u217F","u2184","u24D0","u24D1","u24D2","u24D3","u24D4","u24D5","u24D6","u24D7","u24D8","u24D9",
    "u24DA","u24DB","u24DC","u24DD","u24DE","u24DF","u24E0","u24E1","u24E2","u24E3","u24E4","u24E5",
    "u24E6","u24E7","u24E8","u24E9","u2C30","u2C31","u2C32","u2C33","u2C34","u2C35","u2C36","u2C37",
    "u2C38","u2C39","u2C3A","u2C3B","u2C3C","u2C3D","u2C3E","u2C3F","u2C40","u2C41","u2C42","u2C43",
    "u2C44","u2C45","u2C46","u2C47","u2C48","u2C49","u2C4A","u2C4B","u2C4C","u2C4D","u2C4E","u2C4F",
    "u2C50","u2C51","u2C52","u2C53","u2C54","u2C55","u2C56","u2C57","u2C58","u2C59","u2C5A","u2C5B",
    "u2C5C","u2C5D","u2C5E","u2C5F","u2C61","u026B","u1D7D","u027D","u2C68","u2C6A","u2C6C","u0251",
    "u0271","u0250","u0252","u2C73","u2C76","u023F","u0240","u2C81","u2C83","u2C85","u2C87","u2C89",
    "u2C8B","u2C8D","u2C8F","u2C91","u2C93","u2C95","u2C97","u2C99","u2C9B","u2C9D","u2C9F","u2CA1",
    "u2CA3","u2CA5","u2CA7","u2CA9","u2CAB","u2CAD","u2CAF","u2CB1","u2CB3","u2CB5","u2CB7","u2CB9",
    "u2CBB","u2CBD","u2CBF","u2CC1","u2CC3","u2CC5","u2CC7","u2CC9","u2CCB","u2CCD","u2CCF","u2CD1",
    "u2CD3","u2CD5","u2CD7","u2CD9","u2CDB","u2CDD","u2CDF","u2CE1","u2CE3","u2CEC","u2CEE","u2CF3",
    "uA641","uA643","uA645","uA647","uA649","uA64B","uA64D","uA64F","uA651","uA653","uA655","uA657",
    "uA659","uA65B","uA65D","uA65F","uA661","uA663","uA665","uA667","uA669","uA66B","uA66D","uA681",
    "uA683","uA685","uA687","uA689","uA68B","uA68D","uA68F","uA691","uA693","uA695","uA697","uA699",
    "uA69B","uA723","uA725","uA727","uA729","uA72B","uA72D","uA72F","uA733","uA735","uA737","uA739",
    "uA73B","uA73D","uA73F","uA741","uA743","uA745","uA747","uA749","uA74B","uA74D","uA74F","uA751",
    "uA753","uA755","uA757","uA759","uA75B","uA75D","uA75F","uA761","uA763","uA765","uA767","uA769",
    "uA76B","uA76D","uA76F","uA77A","uA77C","u1D79","uA77F","uA781","uA783","uA785","uA787","uA78C",
    "u0265","uA791","uA793","uA797","uA799","uA79B","uA79D","uA79F","uA7A1","uA7A3","uA7A5","uA7A7",
    "uA7A9","u0266","u025C","u0261","u026C","u026A","u029E","u0287","u029D","uAB53","uA7B5","uA7B7",
    "uA7B9","uA7BB","uA7BD","uA7BF","uA7C1","uA7C3","uA794","u0282","u1D8E","uA7C8","uA7CA","uA7D1",
    "uA7D7","uA7D9","uA7F6","uFF41","uFF42","uFF43","uFF44","uFF45","uFF46","uFF47","uFF48","uFF49",
    "uFF4A","uFF4B","uFF4C","uFF4D","uFF4E","uFF4F","uFF50","uFF51","uFF52","uFF53","uFF54","uFF55",
    "uFF56","uFF57","uFF58","uFF59","uFF5A","u10428","u10429","u1042A","u1042B","u1042C","u1042D",
    "u1042E","u1042F","u10430","u10431","u10432","u10433","u10434","u10435","u10436","u10437",
    "u10438","u10439","u1043A","u1043B","u1043C","u1043D","u1043E","u1043F","u10440","u10441",
    "u10442","u10443","u10444","u10445","u10446","u10447","u10448","u10449","u1044A","u1044B",
    "u1044C","u1044D","u1044E","u1044F","u104D8","u104D9","u104DA","u104DB","u104DC","u104DD",
    "u104DE","u104DF","u104E0","u104E1","u104E2","u104E3","u104E4","u104E5","u104E6","u104E7",
    "u104E8","u104E9","u104EA","u104EB","u104EC","u104ED","u104EE","u104EF","u104F0","u104F1",
    "u104F2","u104F3","u104F4","u104F5","u104F6","u104F7","u104F8","u104F9","u104FA","u104FB",
    "u10597","u10598","u10599","u1059A","u1059B","u1059C","u1059D","u1059E","u1059F","u105A0",
    "u105A1","u105A3","u105A4","u105A5","u105A6","u105A7","u105A8","u105A9","u105AA","u105AB",
    "u105AC","u105AD","u105AE","u105AF","u105B0","u105B1","u105B3","u105B4","u105B5","u105B6",
    "u105B7","u105B8","u105B9","u105BB","u105BC","u10CC0","u10CC1","u10CC2","u10CC3","u10CC4",
    "u10CC5","u10CC6","u10CC7","u10CC8","u10CC9","u10CCA","u10CCB","u10CCC","u10CCD","u10CCE",
    "u10CCF","u10CD0","u10CD1","u10CD2","u10CD3","u10CD4","u10CD5","u10CD6","u10CD7","u10CD8",
    "u10CD9","u10CDA","u10CDB","u10CDC","u10CDD","u10CDE","u10CDF","u10CE0","u10CE1","u10CE2",
    "u10CE3","u10CE4","u10CE5","u10CE6","u10CE7","u10CE8","u10CE9","u10CEA","u10CEB","u10CEC",
    "u10CED","u10CEE","u10CEF","u10CF0","u10CF1","u10CF2","u118C0","u118C1","u118C2","u118C3",
    "u118C4","u118C5","u118C6","u118C7","u118C8","u118C9","u118CA","u118CB","u118CC","u118CD",
    "u118CE","u118CF","u118D0","u118D1","u118D2","u118D3","u118D4","u118D5","u118D6","u118D7",
    "u118D8","u118D9","u118DA","u118DB","u118DC","u118DD","u118DE","u118DF","u16E60","u16E61",
    "u16E62","u16E63","u16E64","u16E65","u16E66","u16E67","u16E68","u16E69","u16E6A","u16E6B",
    "u16E6C","u16E6D","u16E6E","u16E6F","u16E70","u16E71","u16E72","u16E73","u16E74","u16E75",
    "u16E76","u16E77","u16E78","u16E79","u16E7A","u16E7B","u16E7C","u16E7D","u16E7E","u16E7F",
    "u1E922","u1E923","u1E924","u1E925","u1E926","u1E927","u1E928","u1E929","u1E92A","u1E92B",
    "u1E92C","u1E92D","u1E92E","u1E92F","u1E930","u1E931","u1E932","u1E933","u1E934","u1E935",
    "u1E936","u1E937","u1E938","u1E939","u1E93A","u1E93B","u1E93C","u1E93D","u1E93E","u1E93F",
    "u1E940","u1E941","u1E942","u1E943"
    >>

\* The cased letters that are in neither table and are not ASCII letters.
OtherCased ==
    {
    "u00AA","u00B5","u00BA","u0130","u0131","u0138","u0149","u017F","u018D","u019B","u01AA","u01AB",
    "u01BA","u01BE","u01F0","u0221","u0234","u0235","u0236","u0237","u0238","u0239","u0255","u0258",
    "u025A","u025D","u025E","u025F","u0262","u0264","u0267","u026D","u026E","u0270","u0273","u0274",
    "u0276","u0277","u0278","u0279","u027A","u027B","u027C","u027E","u027F","u0281","u0284","u0285",
    "u0286","u028D","u028E","u028F","u0290","u0291","u0293","u0295","u0296","u0297","u0298","u0299",
    "u029A","u029B","u029C","u029F","u02A0","u02A1","u02A2","u02A3","u02A4","u02A5","u02A6","u02A7",
    "u02A8","u02A9","u02AA","u02AB","u02AC","u02AD","u02AE","u02AF","u0390","u03A3","u03B0","u03C2",
    "u03C3","u03D0","u03D1","u03D2","u03D3","u03D4","u03D5","u03D6","u03F0","u03F1","u03F5","u03FC",
    "u0560","u0587","u0588","u1C80","u1C81","u1C82","u1C83","u1C84","u1C85","u1C86","u1C87","u1C88",
    "u1D00","u1D01","u1D02","u1D03","u1D04","u1D05","u1D06","u1D07","u1D08","u1D09","u1D0A","u1D0B",
    "u1D0C","u1D0D","u1D0E","u1D0F","u1D10","u1D11","u1D12","u1D13","u1D14","u1D15","u1D16","u1D17",
    "u1D18","u1D19","u1D1A","u1D1B","u1D1C","u1D1D","u1D1E","u1D1F","u1D20","u1D21","u1D22","u1D23",
    "u1D24","u1D25","u1D26","u1D27","u1D28","u1D29","u1D2A","u1D2B","u1D6B","u1D6C","u1D6D","u1D6E",
    "u1D6F","u1D70","u1D71","u1D72","u1D73","u1D74","u1D75","u1D76","u1D77","u1D7A","u1D7B","u1D7C",
    "u1D7E","u1D7F","u1D80","u1D81","u1D82","u1D83","u1D84","u1D85","u1D86","u1D87","u1D88","u1D89",
    "u1D8A","u1D8B","u1D8C","u1D8D","u1D8F","u1D90","u1D91","u1D92","u1D93","u1D94","u1D95","u1D96",
    "u1D97","u1D98","u1D99","u1D9A","u1E96","u1E97","u1E98","u1E99","u1E9A","u1E9B","u1E9C","u1E9D",
    "u1E9F","u1F50","u1F52","u1F54","u1F56","u1FB2","u1FB4","u1FB6","u1FB7","u1FBE","u1FC2","u1FC4",
    "u1FC6","u1FC7","u1FD2","u1FD3","u1FD6","u1FD7","u1FE2","u1FE3","u1FE4","u1FE6","u1FE7","u1FF2",
    "u1FF4","u1FF6","u1FF7","u2102","u2107","u210A","u210B","u210C","u210D","u210E","u210F","u2110",
    "u2111","u2112","u2113","u2115","u2119","u211A","u211B","u211C","u211D","u2124","u2128","u212C",
    "u212D","u212F","u2130","u2131","u2133","u2134","u2139","u213C","u213D","u213E","u213F","u2145",
    "u2146","u2147","u2148","u2149","u2C71","u2C74","u2C77","u2C78","u2C79","u2C7A","u2C7B","u2CE4",
    "uA730","uA731","uA771","uA772","uA773","uA774","uA775","uA776","uA777","uA778","uA78E","uA795",
    "uA7AF","uA7D3","uA7D5","uA7FA","uAB30","uAB31","uAB32","uAB33","uAB34","uAB35","uAB36","uAB37",
    "uAB38","uAB39","uAB3A","uAB3B","uAB3C","uAB3D","uAB3E","uAB3F","uAB40","uAB41","uAB42","uAB43",
    "uAB44","uAB45","uAB46","uAB47","uAB48","uAB49","uAB4A","uAB4B","uAB4C","uAB4D","uAB4E","uAB4F",
    "uAB50","uAB51","uAB52","uAB54","uAB55","uAB56","uAB57","uAB58","uAB59","uAB5A","uAB60","uAB61",
    "uAB62","uAB63","uAB64","uAB65","uAB66","uAB67","uAB68","uFB00","uFB01","uFB02","uFB03","uFB04",
    "uFB05","uFB06","uFB13","uFB14","uFB15","uFB16","uFB17","u1D400","u1D401","u1D402","u1D403",
    "u1D404","u1D405","u1D406","u1D407","u1D408","u1D409","u1D40A","u1D40B","u1D40C","u1D40D",
    "u1D40E","u1D40F","u1D410","u1D411","u1D412","u1D413","u1D414","u1D415","u1D416","u1D417",
    "u1D418","u1D419","u1D41A","u1D41B","u1D41C","u1D41D","u1D41E","u1D41F","u1D420","u1D421",
    "u1D422","u1D423","u1D424","u1D425","u1D426","u1D427","u1D428","u1D429","u1D42A","u1D42B",
    "u1D42C","u1D42D","u1D42E","u1D42F","u1D430","u1D431","u1D432","u1D433","u1D434","u1D435",
    "u1D436","u1D437","u1D438","u1D439","u1D43A","u1D43B","u1D43C","u1D43D","u1D43E","u1D43F",
    "u1D440","u1D441","u1D442","u1D443","u1D444","u1D445","u1D446","u1D447","u1D448","u1D449",
    "u1D44A","u1D44B","u1D44C","u1D44D","u1D44E","u1D44F","u1D450","u1D451","u1D452","u1D453",
    "u1D454","u1D456","u1D457","u1D458","u1D459","u1D45A","u1D45B","u1D45C","u1D45D","u1D45E",
    "u1D45F","u1D460","u1D461","u1D462","u1D463","u1D464","u1D465","u1D466","u1D467","u1D468",
    "u1D469","u1D46A","u1D46B","u1D46C","u1D46D","u1D46E","u1D46F","u1D470","u1D471","u1D472",
    "u1D473","u1D474","u1D475","u1D476","u1D477","u1D478","u1D479","u1D47A","u1D47B","u1D47C",
    "u1D47D","u1D47E","u1D47F","u1D480","u1D481","u1D482","u1D483","u1D484","u1D485","u1D486",
    "u1D487","u1D488","u1D489","u1D48A","u1D48B","u1D48C","u1D48D","u1D48E","u1D48F","u1D490",
    "u1D491","u1D492","u1D493","u1D494","u1D495","u1D496","u1D497","u1D498","u1D499","u1D49A",
    "u1D49B","u1D49C","u1D49E","u1D49F","u1D4A2","u1D4A5","u1D4A6","u1D4A9","u1D4AA","u1D4AB",
    "u1D4AC","u1D4AE","u1D4AF","u1D4B0","u1D4B1","u1D4B2","u1D4B3","u1D4B4","u1D4B5","u1D4B6",
    "u1D4B7","u1D4B8","u1D4B9","u1D4BB","u1D4BD","u1D4BE","u1D4BF","u1D4C0","u1D4C1","u1D4C2",
    "u1D4C3","u1D4C5","u1D4C6","u1D4C7","u1D4C8","u1D4C9","u1D4CA","u1D4CB","u1D4CC","u1D4CD",
    "u1D4CE","u1D4CF","u1D4D0","u1D4D1","u1D4D2","u1D4D3","u1D4D4","u1D4D5","u1D4D6","u1D4D7",
    "u1D4D8","u1D4D9","u1D4DA","u1D4DB","u1D4DC","u1D4DD","u1D4DE","u1D4DF","u1D4E0","u1D4E1",
    "u1D4E2","u1D4E3","u1D4E4","u1D4E5","u1D4E6","u1D4E7","u1D4E8","u1D4E9","u1D4EA","u1D4EB",
    "u1D4EC","u1D4ED","u1D4EE","u1D4EF","u1D4F0","u1D4F1","u1D4F2","u1D4F3","u1D4F4","u1D4F5",
    "u1D4F6","u1D4F7","u1D4F8","u1D4F9","u1D4FA","u1D4FB","u1D4FC","u1D4FD","u1D4FE","u1D4FF",
    "u1D500","u1D501","u1D502","u1D503","u1D504","u1D505","u1D507","u1D508","u1D509","u1D50A",
    "u1D50D","u1D50E","u1D50F","u1D510","u1D511","u1D512","u1D513","u1D514","u1D516","u1D517",
    "u1D518","u1D519","u1D51A","u1D51B","u1D51C","u1D51E","u1D51F","u1D520","u1D521","u1D522",
    "u1D523","u1D524","u1D525","u1D526","u1D527","u1D528","u1D529","u1D52A","u1D52B","u1D52C",
    "u1D52D","u1D52E","u1D52F","u1D530","u1D531","u1D532","u1D533","u1D534","u1D535","u1D536",
    "u1D537","u1D538","u1D539","u1D53B","u1D53C","u1D53D","u1D53E","u1D540","u1D541","u1D542",
    "u1D543","u1D544","u1D546","u1D54A","u1D54B","u1D54C","u1D54D","u1D54E","u1D54F","u1D550",
    "u1D552","u1D553","u1D554","u1D555","u1D556","u1D557","u1D558","u1D559","u1D55A","u1D55B",
    "u1D55C","u1D55D","u1D55E","u1D55F","u1D560","u1D561","u1D562","u1D563","u1D564","u1D565",
    "u1D566","u1D567","u1D568","u1D569","u1D56A","u1D56B","u1D56C","u1D56D","u1D56E","u1D56F",
    "u1D570","u1D571","u1D572","u1D573","u1D574","u1D575","u1D576","u1D577","u1D578","u1D579",
    "u1D57A","u1D57B","u1D57C","u1D57D","u1D57E","u1D57F","u1D580","u1D581","u1D582","u1D583",
    "u1D584","u1D585","u1D586","u1D587","u1D588","u1D589","u1D58A","u1D58B","u1D58C","u1D58D",
    "u1D58E","u1D58F","u1D590","u1D591","u1D592","u1D593","u1D594","u1D595","u1D596","u1D597",
    "u1D598","u1D599","u1D59A","u1D59B","u1D59C","u1D59D","u1D59E","u1D59F","u1D5A0","u1D5A1",
    "u1D5A2","u1D5A3","u1D5A4","u1D5A5","u1D5A6","u1D5A7","u1D5A8","u1D5A9","u1D5AA","u1D5AB",
    "u1D5AC","u1D5AD","u1D5AE","u1D5AF","u1D5B0","u1D5B1","u1D5B2","u1D5B3","u1D5B4","u1D5B5",
    "u1D5B6","u1D5B7","u1D5B8","u1D5B9","u1D5BA","u1D5BB","u1D5BC","u1D5BD","u1D5BE","u1D5BF",
    "u1D5C0","u1D5C1","u1D5C2","u1D5C3","u1D5C4","u1D5C5","u1D5C6","u1D5C7","u1D5C8","u1D5C9",
    "u1D5CA","u1D5CB","u1D5CC","u1D5CD","u1D5CE","u1D5CF","u1D5D0","u1D5D1","u1D5D2","u1D5D3",
    "u1D5D4","u1D5D5","u1D5D6","u1D5D7","u1D5D8","u1D5D9","u1D5DA","u1D5DB","u1D5DC","u1D5DD",
    "u1D5DE","u1D5DF","u1D5E0","u1D5E1","u1D5E2","u1D5E3","u1D5E4","u1D5E5","u1D5E6","u1D5E7",
    "u1D5E8","u1D5E9","u1D5EA","u1D5EB","u1D5EC","u1D5ED","u1D5EE","u1D5EF","u1D5F0","u1D5F1",
    "u1D5F2","u1D5F3","u1D5F4","u1D5F5","u1D5F6","u1D5F7","u1D5F8","u1D5F9","u1D5FA","u1D5FB",
    "u1D5FC","u1D5FD","u1D5FE","u1D5FF","u1D600","u1D601","u1D602","u1D603","u1D604","u1D605",
    "u1D606","u1D607","u1D608","u1D609","u1D60A","u1D60B","u1D60C","u1D60D","u1D60E","u1D60F",
    "u1D610","u1D611","u1D612","u1D613","u1D614","u1D615","u1D616","u1D617","u1D618","u1D619",
    "u1D61A","u1D61B","u1D61C","u1D61D","u1D61E","u1D61F","u1D620","u1D621","u1D622","u1D623",
    "u1D624","u1D625","u1D626","u1D627","u1D628","u1D629","u1D62A","u1D62B","u1D62C","u1D62D",
    "u1D62E","u1D62F","u1D630","u1D631","u1D632","u1D633","u1D634","u1D635","u1D636","u1D637",
    "u1D638","u1D639","u1D63A","u1D63B","u1D63C","u1D63D","u1D63E","u1D63F","u1D640","u1D641",
    "u1D642","u1D643","u1D644","u1D645","u1D646","u1D647","u1D648","u1D649","u1D64A","u1D64B",
    "u1D64C","u1D64D","u1D64E","u1D64F","u1D650","u1D651","u1D652","u1D653","u1D654","u1D655",
    "u1D656","u1D657","u1D658","u1D659","u1D65A","u1D65B","u1D65C","u1D65D","u1D65E","u1D65F",
    "u1D660","u1D661","u1D662","u1D663","u1D664","u1D665","u1D666","u1D667","u1D668","u1D669",
    "u1D66A","u1D66B","u1D66C","u1D66D","u1D66E","u1D66F","u1D670","u1D671","u1D672","u1D673",
    "u1D674","u1D675","u1D676","u1D677","u1D678","u1D679","u1D67A","u1D67B","u1D67C","u1D67D",
    "u1D67E","u1D67F","u1D680","u1D681","u1D682","u1D683","u1D684","u1D685","u1D686","u1D687",
    "u1D688","u1D689","u1D68A","u1D68B","u1D68C","u1D68D","u1D68E","u1D68F","u1D690","u1D691",
    "u1D692","u1D693","u1D694","u1D695","u1D696","u1D697","u1D698","u1D699","u1D69A","u1D69B",
    "u1D69C","u1D69D","u1D69E","u1D69F","u1D6A0","u1D6A1","u1D6A2","u1D6A3","u1D6A4","u1D6A5",
    "u1D6A8","u1D6A9","u1D6AA","u1D6AB","u1D6AC","u1D6AD","u1D6AE","u1D6AF","u1D6B0","u1D6B1",
    "u1D6B2","u1D6B3","u1D6B4","u1D6B5","u1D6B6","u1D6B7","u1D6B8","u1D6B9","u1D6BA","u1D6BB",
    "u1D6BC","u1D6BD","u1D6BE","u1D6BF","u1D6C0","u1D6C2","u1D6C3","u1D6C4","u1D6C5","u1D6C6",
    "u1D6C7","u1D6C8","u1D6C9","u1D6CA","u1D6CB","u1D6CC","u1D6CD","u1D6CE","u1D6CF","u1D6D0",
    "u1D6D1","u1D6D2","u1D6D3","u1D6D4","u1D6D5","u1D6D6","u1D6D7","u1D6D8","u1D6D9","u1D6DA",
    "u1D6DC","u1D6DD","u1D6DE","u1D6DF","u1D6E0","u1D6E1","u1D6E2","u1D6E3","u1D6E4","u1D6E5",
    "u1D6E6","u1D6E7","u1D6E8","u1D6E9","u1D6EA","u1D6EB","u1D6EC","u1D6ED","u1D6EE","u1D6EF",
    "u1D6F0","u1D6F1","u1D6F2","u1D6F3","u1D6F4","u1D6F5","u1D6F6","u1D6F7","u1D6F8","u1D6F9",
    "u1D6FA","u1D6FC","u1D6FD","u1D6FE","u1D6FF","u1D700","u1D701","u1D702","u1D703","u1D704",
    "u1D705","u1D706","u1D707","u1D708","u1D709","u1D70A","u1D70B","u1D70C","u1D70D","u1D70E",
    "u1D70F","u1D710","u1D711","u1D712","u1D713","u1D714","u1D716","u1D717","u1D718","u1D719",
    "u1D71A","u1D71B","u1D71C","u1D71D","u1D71E","u1D71F","u1D720","u1D721","u1D722","u1D723",
    "u1D724","u1D725","u1D726","u1D727","u1D728","u1D729","u1D72A","u1D72B","u1D72C","u1D72D",
    "u1D72E","u1D72F","u1D730","u1D731","u1D732","u1D733","u1D734","u1D736","u1D737","u1D738",
    "u1D739","u1D73A","u1D73B","u1D73C","u1D73D","u1D73E","u1D73F","u1D740","u1D741","u1D742",
    "u1D743","u1D744","u1D745","u1D746","u1D747","u1D748","u1D749","u1D74A","u1D74B","u1D74C",
    "u1D74D","u1D74E","u1D750","u1D751","u1D752","u1D753","u1D754","u1D755","u1D756","u1D757",
    "u1D758","u1D759","u1D75A","u1D75B","u1D75C","u1D75D","u1D75E","u1D75F","u1D760","u1D761",
    "u1D762","u1D763","u1D764","u1D765","u1D766","u1D767","u1D768","u1D769","u1D76A","u1D76B",
    "u1D76C","u1D76D","u1D76E","u1D770","u1D771","u1D772","u1D773","u1D774","u1D775","u1D776",
    "u1D777","u1D778","u1D779","u1D77A","u1D77B","u1D77C","u1D77D","u1D77E","u1D77F","u1D780",
    "u1D781","u1D782","u1D783","u1D784","u1D785","u1D786","u1D787","u1D788","u1D78A","u1D78B",
    "u1D78C","u1D78D","u1D78E","u1D78F","u1D790","u1D791","u1D792","u1D793","u1D794","u1D795",
    "u1D796","u1D797","u1D798","u1D799","u1D79A","u1D79B","u1D79C","u1D79D","u1D79E","u1D79F",
    "u1D7A0","u1D7A1","u1D7A2","u1D7A3","u1D7A4","u1D7A5","u1D7A6","u1D7A7","u1D7A8","u1D7AA",
    "u1D7AB","u1D7AC","u1D7AD","u1D7AE","u1D7AF","u1D7B0","u1D7B1","u1D7B2","u1D7B3","u1D7B4",
    "u1D7B5","u1D7B6","u1D7B7","u1D7B8","u1D7B9","u1D7BA","u1D7BB","u1D7BC","u1D7BD","u1D7BE",
    "u1D7BF","u1D7C0","u1D7C1","u1D7C2","u1D7C4","u1D7C5","u1D7C6","u1D7C7","u1D7C8","u1D7C9",
    "u1D7CA","u1D7CB","u1DF00","u1DF01","u1DF02","u1DF03","u1DF04","u1DF05","u1DF06","u1DF07",
    "u1DF08","u1DF09","u1DF0B","u1DF0C","u1DF0D","u1DF0E","u1DF0F","u1DF10","u1DF11","u1DF12",
    "u1DF13","u1DF14","u1DF15","u1DF16","u1DF17","u1DF18","u1DF19","u1DF1A","u1DF1B","u1DF1C",
    "u1DF1D","u1DF1E","u1F130","u1F131","u1F132","u1F133","u1F134","u1F135","u1F136","u1F137",
    "u1F138","u1F139","u1F13A","u1F13B","u1F13C","u1F13D","u1F13E","u1F13F","u1F140","u1F141",
    "u1F142","u1F143","u1F144","u1F145","u1F146","u1F147","u1F148","u1F149","u1F150","u1F151",
    "u1F152","u1F153","u1F154","u1F155","u1F156","u1F157","u1F158","u1F159","u1F15A","u1F15B",
    "u1F15C","u1F15D","u1F15E","u1F15F","u1F160","u1F161","u1F162","u1F163","u1F164","u1F165",
    "u1F166","u1F167","u1F168","u1F169","u1F170","u1F171","u1F172","u1F173","u1F174","u1F175",
    "u1F176","u1F177","u1F178","u1F179","u1F17A","u1F17B","u1F17C","u1F17D","u1F17E","u1F17F",
    "u1F180","u1F181","u1F182","u1F183","u1F184","u1F185","u1F186","u1F187","u1F188","u1F189"
    }

\* The characters the final-sigma rule skips (case-ignorable ones; the grave accent is "u0060").
CaseIgnorable ==
    {
    "'",".",":","^","u0060","u00A8","u00AD","u00AF","u00B4","u00B7","u00B8","u02B0","u02B1","u02B2",
    "u02B3","u02B4","u02B5","u02B6","u02B7","u02B8","u02B9","u02BA","u02BB","u02BC","u02BD","u02BE",
    "u02BF","u02C0","u02C1","u02C2","u02C3","u02C4","u02C5","u02C6","u02C7","u02C8","u02C9","u02CA",
    "u02CB","u02CC","u02CD","u02CE","u02CF","u02D0","u02D1","u02D2","u02D3","u02D4","u02D5","u02D6",
    "u02D7","u02D8","u02D9","u02DA","u02DB","u02DC","u02DD","u02DE","u02DF","u02E0","u02E1","u02E2",
    "u02E3","u02E4","u02E5","u02E6","u02E7","u02E8","u02E9","u02EA","u02EB","u02EC","u02ED","u02EE",
    "u02EF","u02F0","u02F1","u02F2","u02F3","u02F4","u02F5","u02F6","u02F7","u02F8","u02F9","u02FA",
    "u02FB","u02FC","u02FD","u02FE","u02FF","u0300","u0301","u0302","u0303","u0304","u0305","u0306",
    "u0307","u0308","u0309","u030A","u030B","u030C","u030D","u030E","u030F","u0310","u0311","u0312",
    "u0313","u0314","u0315","u0316","u0317","u0318","u0319","u031A","u031B","u031C","u031D","u031E",
    "u031F","u0320","u0321","u0322","u0323","u0324","u0325","u0326","u0327","u0328","u0329","u032A",
    "u032B","u032C","u032D","u032E","u032F","u0330","u0331","u0332","u0333","u0334","u0335","u0336",
    "u0337","u0338","u0339","u033A","u033B","u033C","u033D","u033E","u033F","u0340","u0341","u0342",
    "u0343","u0344","u0345","u0346","u0347","u0348","u0349","u034A","u034B","u034C","u034D","u034E",
    "u034F","u0350","u0351","u0352","u0353","u0354","u0355","u0356","u0357","u0358","u0359","u035A",
    "u035B","u035C","u035D","u035E","u035F","u0360","u0361","u0362","u0363","u0364","u0365","u0366",
    "u0367","u0368","u0369","u036A","u036B","u036C","u036D","u036E","u036F","u0374","u0375","u037A",
    "u0384","u0385","u0387","u0483","u0484","u0485","u0486","u0487","u0488","u0489","u0559","u055F",
    "u0591","u0592","u0593","u0594","u0595","u0596","u0597","u0598","u0599","u059A","u059B","u059C",
    "u059D","u059E","u059F","u05A0","u05A1","u05A2","u05A3","u05A4","u05A5","u05A6","u05A7","u05A8",
    "u05A9","u05AA","u05AB","u05AC","u05AD","u05AE","u05AF","u05B0","u05B1","u05B2","u05B3","u05B4",
    "u05B5","u05B6","u05B7","u05B8","u05B9","u05BA","u05BB","u05BC","u05BD","u05BF","u05C1","u05C2",
    "u05C4","u05C5","u05C7","u05F4","u0600","u0601","u0602","u0603","u0604","u0605","u0610","u0611",
    "u0612","u0613","u0614","u0615","u0616","u0617","u0618","u0619","u061A","u061C","u0640","u064B",
    "u064C","u064D","u064E","u064F","u0650","u0651","u0652","u0653","u0654","u0655","u0656","u0657",
    "u0658","u0659","u065A","u065B","u065C","u065D","u065E","u065F","u0670","u06D6","u06D7","u06D8",
    "u06D9","u06DA","u06DB","u06DC","u06DD","u06DF","u06E0","u06E1","u06E2","u06E3","u06E4","u06E5",
    "u06E6","u06E7","u06E8","u06EA","u06EB","u06EC","u06ED","u070F","u0711","u0730","u0731","u0732",
    "u0733","u0734","u0735","u0736","u0737","u0738","u0739","u073A","u073B","u073C","u073D","u073E",
    "u073F","u0740","u0741","u0742","u0743","u0744","u0745","u0746","u0747","u0748","u0749","u074A",
    "u07A6","u07A7","u07A8","u07A9","u07AA","u07AB","u07AC","u07AD","u07AE","u07AF","u07B0","u07EB",
    "u07EC","u07ED","u07EE","u07EF","u07F0","u07F1","u07F2","u07F3","u07F4","u07F5","u07FA","u07FD",
    "u0816","u0817","u0818","u0819","u081A","u081B","u081C","u081D","u081E","u081F","u0820","u0821",
    "u0822","u0823","u0824","u0825","u0826","u0827","u0828","u0829","u082A","u082B","u082C","u082D",
    "u0859","u085A","u085B","u0888","u0890","u0891","u0898","u0899","u089A","u089B","u089C","u089D",
    "u089E","u089F","u08C9","u08CA","u08CB","u08CC","u08CD","u08CE","u08CF","u08D0","u08D1","u08D2",
    "u08D3","u08D4","u08D5","u08D6","u08D7","u08D8","u08D9","u08DA","u08DB","u08DC","u08DD","u08DE",
    "u08DF","u08E0","u08E1","u08E2","u08E3","u08E4","u08E5","u08E6","u08E7","u08E8","u08E9","u08EA",
    "u08EB","u08EC","u08ED","u08EE","u08EF","u08F0","u08F1","u08F2","u08F3","u08F4","u08F5","u08F6",
    "u08F7","u08F8","u08F9","u08FA","u08FB","u08FC","u08FD","u08FE","u08FF","u0900","u0901","u0902",
    "u093A","u093C","u0941","u0942","u0943","u0944","u0945","u0946","u0947","u0948","u094D","u0951",
    "u0952","u0953","u0954","u0955","u0956","u0957","u0962","u0963","u0971","u0981","u09BC","u09C1",
    "u09C2","u09C3","u09C4","u09CD","u09E2","u09E3","u09FE","u0A01","u0A02","u0A3C","u0A41","u0A42",
    "u0A47","u0A48","u0A4B","u0A4C","u0A4D","u0A51","u0A70","u0A71","u0A75","u0A81","u0A82","u0ABC",
    "u0AC1","u0AC2","u0AC3","u0AC4","u0AC5","u0AC7","u0AC8","u0ACD","u0AE2","u0AE3","u0AFA","u0AFB",
    "u0AFC","u0AFD","u0AFE","u0AFF","u0B01","u0B3C","u0B3F","u0B41","u0B42","u0B43","u0B44","u0B4D",
    "u0B55","u0B56","u0B62","u0B63","u0B82","u0BC0","u0BCD","u0C00","u0C04","u0C3C","u0C3E","u0C3F",
    "u0C40","u0C46","u0C47","u0C48","u0C4A","u0C4B","u0C4C","u0C4D","u0C55","u0C56","u0C62","u0C63",
    "u0C81","u0CBC","u0CBF","u0CC6","u0CCC","u0CCD","u0CE2","u0CE3","u0D00","u0D01","u0D3B","u0D3C",
    "u0D41","u0D42","u0D43","u0D44","u0D4D","u0D62","u0D63","u0D81","u0DCA","u0DD2","u0DD3","u0DD4",
    "u0DD6","u0E31","u0E34","u0E35","u0E36","u0E37","u0E38","u0E39","u0E3A","u0E46","u0E47","u0E48",
    "u0E49","u0E4A","u0E4B","u0E4C","u0E4D","u0E4E","u0EB1","u0EB4","u0EB5","u0EB6","u0EB7","u0EB8",
    "u0EB9","u0EBA","u0EBB","u0EBC","u0EC6","u0EC8","u0EC9","u0ECA","u0ECB","u0ECC","u0ECD","u0F18",
    "u0F19","u0F35","u0F37","u0F39","u0F71","u0F72","u0F73","u0F74","u0F75","u0F76","u0F77","u0F78",
    "u0F79","u0F7A","u0F7B","u0F7C","u0F7D","u0F7E","u0F80","u0F81","u0F82","u0F83","u0F84","u0F86",
    "u0F87","u0F8D","u0F8E","u0F8F","u0F90","u0F91","u0F92","u0F93","u0F94","u0F95","u0F96","u0F97",
    "u0F99","u0F9A","u0F9B","u0F9C","u0F9D","u0F9E","u0F9F","u0FA0","u0FA1","u0FA2","u0FA3","u0FA4",
    "u0FA5","u0FA6","u0FA7","u0FA8","u0FA9","u0FAA","u0FAB","u0FAC","u0FAD","u0FAE","u0FAF","u0FB0",
    "u0FB1","u0FB2","u0FB3","u0FB4","u0FB5","u0FB6","u0FB7","u0FB8","u0FB9","u0FBA","u0FBB","u0FBC",
    "u0FC6","u102D","u102E","u102F","u1030","u1032","u1033","u1034","u1035","u1036","u1037","u1039",
    "u103A","u103D","u103E","u1058","u1059","u105E","u105F","u1060","u1071","u1072","u1073","u1074",
    "u1082","u1085","u1086","u108D","u109D","u10FC","u135D","u135E","u135F","u1712","u1713","u1714",
    "u1732","u1733","u1752","u1753","u1772","u1773","u17B4","u17B5","u17B7","u17B8","u17B9","u17BA",
    "u17BB","u17BC","u17BD","u17C6","u17C9","u17CA","u17CB","u17CC","u17CD","u17CE","u17CF","u17D0",
    "u17D1","u17D2","u17D3","u17D7","u17DD","u180B","u180C","u180D","u180E","u180F","u1843","u1885",
    "u1886","u18A9","u1920","u1921","u1922","u1927","u1928","u1932","u1939","u193A","u193B","u1A17",
    "u1A18","u1A1B","u1A56","u1A58","u1A59","u1A5A","u1A5B","u1A5C","u1A5D","u1A5E","u1A60","u1A62",
    "u1A65","u1A66","u1A67","u1A68","u1A69","u1A6A","u1A6B","u1A6C","u1A73","u1A74","u1A75","u1A76",
    "u1A77","u1A78","u1A79","u1A7A","u1A7B","u1A7C","u1A7F","u1AA7","u1AB0","u1AB1","u1AB2","u1AB3",
    "u1AB4","u1AB5","u1AB6","u1AB7","u1AB8","u1AB9","u1ABA","u1ABB","u1ABC","u1ABD","u1ABE","u1ABF",
    "u1AC0","u1AC1","u1AC2","u1AC3","u1AC4","u1AC5","u1AC6","u1AC7","u1AC8","u1AC9","u1ACA","u1ACB",
    "u1ACC","u1ACD","u1ACE","u1B00","u1B01","u1B02","u1B03","u1B34","u1B36","u1B37","u1B38","u1B39",
    "u1B3A","u1B3C","u1B42","u1B6B","u1B6C","u1B6D","u1B6E","u1B6F","u1B70","u1B71","u1B72","u1B73",
    "u1B80","u1B81","u1BA2","u1BA3","u1BA4","u1BA5","u1BA8","u1BA9","u1BAB","u1BAC","u1BAD","u1BE6",
    "u1BE8","u1BE9","u1BED","u1BEF","u1BF0","u1BF1","u1C2C","u1C2D","u1C2E","u1C2F","u1C30","u1C31",
    "u1C32","u1C33","u1C36","u1C37","u1C78","u1C79","u1C7A","u1C7B","u1C7C","u1C7D","u1CD0","u1CD1",
    "u1CD2","u1CD4","u1CD5","u1CD6","u1CD7","u1CD8","u1CD9","u1CDA","u1CDB","u1CDC","u1CDD","u1CDE",
    "u1CDF","u1CE0","u1CE2","u1CE3","u1CE4","u1CE5","u1CE6","u1CE7","u1CE8","u1CED","u1CF4","u1CF8",
    "u1CF9","u1D2C","u1D2D","u1D2E","u1D2F","u1D30","u1D31","u1D32","u1D33","u1D34","u1D35","u1D36",
    "u1D37","u1D38","u1D39","u1D3A","u1D3B","u1D3C","u1D3D","u1D3E","u1D3F","u1D40","u1D41","u1D42",
    "u1D43","u1D44","u1D45","u1D46","u1D47","u1D48","u1D49","u1D4A","u1D4B","u1D4C","u1D4D","u1D4E",
    "u1D4F","u1D50","u1D51","u1D52","u1D53","u1D54","u1D55","u1D56","u1D57","u1D58","u1D59","u1D5A",
    "u1D5B","u1D5C","u1D5D","u1D5E","u1D5F","u1D60","u1D61","u1D62","u1D63","u1D64","u1D65","u1D66",
    "u1D67","u1D68","u1D69","u1D6A","u1D78","u1D9B","u1D9C","u1D9D","u1D9E","u1D9F","u1DA0","u1DA1",
    "u1DA2","u1DA3","u1DA4","u1DA5","u1DA6","u1DA7","u1DA8","u1DA9","u1DAA","u1DAB","u1DAC","u1DAD",
    "u1DAE","u1DAF","u1DB0","u1DB1","u1DB2","u1DB3","u1DB4","u1DB5","u1DB6","u1DB7","u1DB8","u1DB9",
    "u1DBA","u1DBB","u1DBC","u1DBD","u1DBE","u1DBF","u1DC0","u1DC1","u1DC2","u1DC3","u1DC4","u1DC5",
    "u1DC6","u1DC7","u1DC8","u1DC9","u1DCA","u1DCB","u1DCC","u1DCD","u1DCE","u1DCF","u1DD0","u1DD1",
    "u1DD2","u1DD3","u1DD4","u1DD5","u1DD6","u1DD7","u1DD8","u1DD9","u1DDA","u1DDB","u1DDC","u1DDD",
    "u1DDE","u1DDF","u1DE0","u1DE1","u1DE2","u1DE3","u1DE4","u1DE5","u1DE6","u1DE7","u1DE8","u1DE9",
    "u1DEA","u1DEB","u1DEC","u1DED","u1DEE","u1DEF","u1DF0","u1DF1","u1DF2","u1DF3","u1DF4","u1DF5",
    "u1DF6","u1DF7","u1DF8","u1DF9","u1DFA","u1DFB","u1DFC","u1DFD","u1DFE","u1DFF","u1FBD","u1FBF",
    "u1FC0","u1FC1","u1FCD","u1FCE","u1FCF","u1FDD","u1FDE","u1FDF","u1FED","u1FEE","u1FEF","u1FFD",
    "u1FFE","u200B","u200C","u200D","u200E","u200F","u2018","u2019","u2024","u2027","u202A","u202B",
    "u202C","u202D","u202E","u2060","u2061","u2062","u2063","u2064","u2066","u2067","u2068","u2069",
    "u206A","u206B","u206C","u206D","u206E","u206F","u2071","u207F","u2090","u2091","u2092","u2093",
    "u2094","u2095","u2096","u2097","u2098","u2099","u209A","u209B","u209C","u20D0","u20D1","u20D2",
    "u20D3","u20D4","u20D5","u20D6","u20D7","u20D8","u20D9","u20DA","u20DB","u20DC","u20DD","u20DE",
    "u20DF","u20E0","u20E1","u20E2","u20E3","u20E4","u20E5","u20E6","u20E7","u20E8","u20E9","u20EA",
    "u20EB","u20EC","u20ED","u20EE","u20EF","u20F0","u2C7C","u2C7D","u2CEF","u2CF0","u2CF1","u2D6F",
    "u2D7F","u2DE0","u2DE1","u2DE2","u2DE3","u2DE4","u2DE5","u2DE6","u2DE7","u2DE8","u2DE9","u2DEA",
    "u2DEB","u2DEC","u2DED","u2DEE","u2DEF","u2DF0","u2DF1","u2DF2","u2DF3","u2DF4","u2DF5","u2DF6",
    "u2DF7","u2DF8","u2DF9","u2DFA","u2DFB","u2DFC","u2DFD","u2DFE","u2DFF","u2E2F","u3005","u302A",
    "u302B","u302C","u302D","u3031","u3032","u3033","u3034","u3035","u303B","u3099","u309A","u309B",
    "u309C","u309D","u309E","u30FC","u30FD","u30FE","uA015","uA4F8","uA4F9","uA4FA","uA4FB","uA4FC",
    "uA4FD","uA60C","uA66F","uA670","uA671","uA672","uA674","uA675","uA676","uA677","uA678","uA679",
    "uA67A","uA67B","uA67C","uA67D","uA67F","uA69C","uA69D","uA69E","uA69F","uA6F0","uA6F1","uA700",
    "uA701","uA702","uA703","uA704","uA705","uA706","uA707","uA708","uA709","uA70A","uA70B","uA70C",
    "uA70D","uA70E","uA70F","uA710","uA711","uA712","uA713","uA714","uA715","uA716","uA717","uA718",
    "uA719","uA71A","uA71B","uA71C","uA71D","uA71E","uA71F","uA720","uA721","uA770","uA788","uA789",
    "uA78A","uA7F2","uA7F3","uA7F4","uA7F8","uA7F9","uA802","uA806","uA80B","uA825","uA826","uA82C",
    "uA8C4","uA8C5","uA8E0","uA8E1","uA8E2","uA8E3","uA8E4","uA8E5","uA8E6","uA8E7","uA8E8","uA8E9",
    "uA8EA","uA8EB","uA8EC","uA8ED","uA8EE","uA8EF","uA8F0","uA8F1","uA8FF","uA926","uA927","uA928",
    "uA929","uA92A","uA92B","uA92C","uA92D","uA947","uA948","uA949","uA94A","uA94B","uA94C","uA94D",
    "uA94E","uA94F","uA950","uA951","uA980","uA981","uA982","uA9B3","uA9B6","uA9B7","uA9B8","uA9B9",
    "uA9BC","uA9BD","uA9CF","uA9E5","uA9E6","uAA29","uAA2A","uAA2B","uAA2C","uAA2D","uAA2E","uAA31",
    "uAA32","uAA35","uAA36","uAA43","uAA4C","uAA70","uAA7C","uAAB0","uAAB2","uAAB3","uAAB4","uAAB7",
    "uAAB8","uAABE","uAABF","uAAC1","uAADD","uAAEC","uAAED","uAAF3","uAAF4","uAAF6","uAB5B","uAB5C",
    "uAB5D","uAB5E","uAB5F","uAB69","uAB6A","uAB6B","uABE5","uABE8","uABED","uFB1E","uFBB2","uFBB3",
    "uFBB4","uFBB5","uFBB6","uFBB7","uFBB8","uFBB9","uFBBA","uFBBB","uFBBC","uFBBD","uFBBE","uFBBF",
    "uFBC0","uFBC1","uFBC2","uFE00","uFE01","uFE02","uFE03","uFE04","uFE05","uFE06","uFE07","uFE08",
    "uFE09","uFE0A","uFE0B","uFE0C","uFE0D","uFE0E","uFE0F","uFE13","uFE20","uFE21","uFE22","uFE23",
    "uFE24","uFE25","uFE26","uFE27","uFE28","uFE29","uFE2A","uFE2B","uFE2C","uFE2D","uFE2E","uFE2F",
    "uFE52","uFE55","uFEFF","uFF07","uFF0E","uFF1A","uFF3E","uFF40","uFF70","uFF9E","uFF9F","uFFE3",
    "uFFF9","uFFFA","uFFFB","u101FD","u102E0","u10376","u10377","u10378","u10379","u1037A","u10780",
    "u10781","u10782","u10783","u10784","u10785","u10787","u10788","u10789","u1078A","u1078B",
    "u1078C","u1078D","u1078E","u1078F","u10790","u10791","u10792","u10793","u10794","u10795",
    "u10796","u10797","u10798","u10799","u1079A","u1079B","u1079C","u1079D","u1079E","u1079F",
    "u107A0","u107A1","u107A2","u107A3","u107A4","u107A5","u107A6","u107A7","u107A8","u107A9",
    "u107AA","u107AB","u107AC","u107AD","u107AE","u107AF","u107B0","u107B2","u107B3","u107B4",
    "u107B5","u107B6","u107B7","u107B8","u107B9","u107BA","u10A01","u10A02","u10A03","u10A05",
    "u10A06","u10A0C","u10A0D","u10A0E","u10A0F","u10A38","u10A39","u10A3A","u10A3F","u10AE5",
    "u10AE6","u10D24","u10D25","u10D26","u10D27","u10EAB","u10EAC","u10F46","u10F47","u10F48",
    "u10F49","u10F4A","u10F4B","u10F4C","u10F4D","u10F4E","u10F4F","u10F50","u10F82","u10F83",
    "u10F84","u10F85","u11001","u11038","u11039","u1103A","u1103B","u1103C","u1103D","u1103E",
    "u1103F","u11040","u11041","u11042","u11043","u11044","u11045","u11046","u11070","u11073",
    "u11074","u1107F","u11080","u11081","u110B3","u110B4","u110B5","u110B6","u110B9","u110BA",
    "u110BD","u110C2","u110CD","u11100","u11101","u11102","u11127","u11128","u11129","u1112A",
    "u1112B","u1112D","u1112E","u1112F","u11130","u11131","u11132","u11133","u11134","u11173",
    "u11180","u11181","u111B6","u111B7","u111B8","u111B9","u111BA","u111BB","u111BC","u111BD",
    "u111BE","u111C9","u111CA","u111CB","u111CC","u111CF","u1122F","u11230","u11231","u11234",
    "u11236","u11237","u1123E","u112DF","u112E3","u112E4","u112E5","u112E6","u112E7","u112E8",
    "u112E9","u112EA","u11300","u11301","u1133B","u1133C","u11340","u11366","u11367","u11368",
    "u11369","u1136A","u1136B","u1136C","u11370","u11371","u11372","u11373","u11374","u11438",
    "u11439","u1143A","u1143B","u1143C","u1143D","u1143E","u1143F","u11442","u11443","u11444",
    "u11446","u1145E","u114B3","u114B4","u114B5","u114B6","u114B7","u114B8","u114BA","u114BF",
    "u114C0","u114C2","u114C3","u115B2","u115B3","u115B4","u115B5","u115BC","u115BD","u115BF",
    "u115C0","u115DC","u115DD","u11633","u11634","u11635","u11636","u11637","u11638","u11639",
    "u1163A","u1163D","u1163F","u11640","u116AB","u116AD","u116B0","u116B1","u116B2","u116B3",
    "u116B4","u116B5","u116B7","u1171D","u1171E","u1171F","u11722","u11723","u11724","u11725",
    "u11727","u11728","u11729","u1172A","u1172B","u1182F","u11830","u11831","u11832","u11833",
    "u11834","u11835","u11836","u11837","u11839","u1183A","u1193B","u1193C","u1193E","u11943",
    "u119D4","u119D5","u119D6","u119D7","u119DA","u119DB","u119E0","u11A01","u11A02","u11A03",
    "u11A04","u11A05","u11A06","u11A07","u11A08","u11A09","u11A0A","u11A33","u11A34","u11A35",
    "u11A36","u11A37","u11A38","u11A3B","u11A3C","u11A3D","u11A3E","u11A47","u11A51","u11A52",
    "u11A53","u11A54","u11A55","u11A56","u11A59","u11A5A","u11A5B","u11A8A","u11A8B","u11A8C",
    "u11A8D","u11A8E","u11A8F","u11A90","u11A91","u11A92","u11A93","u11A94","u11A95","u11A96",
    "u11A98","u11A99","u11C30","u11C31","u11C32","u11C33","u11C34","u11C35","u11C36","u11C38",
    "u11C39","u11C3A","u11C3B","u11C3C","u11C3D","u11C3F","u11C92","u11C93","u11C94","u11C95",
    "u11C96","u11C97","u11C98","u11C99","u11C9A","u11C9B","u11C9C","u11C9D","u11C9E","u11C9F",
    "u11CA0","u11CA1","u11CA2","u11CA3","u11CA4","u11CA5","u11CA6","u11CA7","u11CAA","u11CAB",
    "u11CAC","u11CAD","u11CAE","u11CAF","u11CB0","u11CB2","u11CB3","u11CB5","u11CB6","u11D31",
    "u11D32","u11D33","u11D34","u11D35","u11D36","u11D3A","u11D3C","u11D3D","u11D3F","u11D40",
    "u11D41","u11D42","u11D43","u11D44","u11D45","u11D47","u11D90","u11D91","u11D95","u11D97",
    "u11EF3","u11EF4","u13430","u13431","u13432","u13433","u13434","u13435","u13436","u13437",
    "u13438","u16AF0","u16AF1","u16AF2","u16AF3","u16AF4","u16B30","u16B31","u16B32","u16B33",
    "u16B34","u16B35","u16B36","u16B40","u16B41","u16B42","u16B43","u16F4F","u16F8F","u16F90",
    "u16F91","u16F92","u16F93","u16F94","u16F95","u16F96","u16F97","u16F98","u16F99","u16F9A",
    "u16F9B","u16F9C","u16F9D","u16F9E","u16F9F","u16FE0","u16FE1","u16FE3","u16FE4","u1AFF0",
    "u1AFF1","u1AFF2","u1AFF3","u1AFF5","u1AFF6","u1AFF7","u1AFF8","u1AFF9","u1AFFA","u1AFFB",
    "u1AFFD","u1AFFE","u1BC9D","u1BC9E","u1BCA0","u1BCA1","u1BCA2","u1BCA3","u1CF00","u1CF01",
    "u1CF02","u1CF03","u1CF04","u1CF05","u1CF06","u1CF07","u1CF08","u1CF09","u1CF0A","u1CF0B",
    "u1CF0C","u1CF0D","u1CF0E","u1CF0F","u1CF10","u1CF11","u1CF12","u1CF13","u1CF14","u1CF15",
    "u1CF16","u1CF17","u1CF18","u1CF19","u1CF1A","u1CF1B","u1CF1C","u1CF1D","u1CF1E","u1CF1F",
    "u1CF20","u1CF21","u1CF22","u1CF23","u1CF24","u1CF25","u1CF26","u1CF27","u1CF28","u1CF29",
    "u1CF2A","u1CF2B","u1CF2C","u1CF2D","u1CF30","u1CF31","u1CF32","u1CF33","u1CF34","u1CF35",
    "u1CF36","u1CF37","u1CF38","u1CF39","u1CF3A","u1CF3B","u1CF3C","u1CF3D","u1CF3E","u1CF3F",
    "u1CF40","u1CF41","u1CF42","u1CF43","u1CF44","u1CF45","u1CF46","u1D167","u1D168","u1D169",
    "u1D173","u1D174","u1D175","u1D176","u1D177","u1D178","u1D179","u1D17A","u1D17B","u1D17C",
    "u1D17D","u1D17E","u1D17F","u1D180","u1D181","u1D182","u1D185","u1D186","u1D187","u1D188",
    "u1D189","u1D18A","u1D18B","u1D1AA","u1D1AB","u1D1AC","u1D1AD","u1D242","u1D243","u1D244",
    "u1DA00","u1DA01","u1DA02","u1DA03","u1DA04","u1DA05","u1DA06","u1DA07","u1DA08","u1DA09",
    "u1DA0A","u1DA0B","u1DA0C","u1DA0D","u1DA0E","u1DA0F","u1DA10","u1DA11","u1DA12","u1DA13",
    "u1DA14","u1DA15","u1DA16","u1DA17","u1DA18","u1DA19","u1DA1A","u1DA1B","u1DA1C","u1DA1D",
    "u1DA1E","u1DA1F","u1DA20","u1DA21","u1DA22","u1DA23","u1DA24","u1DA25","u1DA26","u1DA27",
    "u1DA28","u1DA29","u1DA2A","u1DA2B","u1DA2C","u1DA2D","u1DA2E","u1DA2F","u1DA30","u1DA31",
    "u1DA32","u1DA33","u1DA34","u1DA35","u1DA36","u1DA3B","u1DA3C","u1DA3D","u1DA3E","u1DA3F",
    "u1DA40","u1DA41","u1DA42","u1DA43","u1DA44","u1DA45","u1DA46","u1DA47","u1DA48","u1DA49",
    "u1DA4A","u1DA4B","u1DA4C","u1DA4D","u1DA4E","u1DA4F","u1DA50","u1DA51","u1DA52","u1DA53",
    "u1DA54","u1DA55","u1DA56","u1DA57","u1DA58","u1DA59","u1DA5A","u1DA5B","u1DA5C","u1DA5D",
    "u1DA5E","u1DA5F","u1DA60","u1DA61","u1DA62","u1DA63","u1DA64","u1DA65","u1DA66","u1DA67",
    "u1DA68","u1DA69","u1DA6A","u1DA6B","u1DA6C","u1DA75","u1DA84","u1DA9B","u1DA9C","u1DA9D",
    "u1DA9E","u1DA9F","u1DAA1","u1DAA2","u1DAA3","u1DAA4","u1DAA5","u1DAA6","u1DAA7","u1DAA8",
    "u1DAA9","u1DAAA","u1DAAB","u1DAAC","u1DAAD","u1DAAE","u1DAAF","u1E000","u1E001","u1E002",
    "u1E003","u1E004","u1E005","u1E006","u1E008","u1E009","u1E00A","u1E00B","u1E00C","u1E00D",
    "u1E00E","u1E00F","u1E010","u1E011","u1E012","u1E013","u1E014","u1E015","u1E016","u1E017",
    "u1E018","u1E01B","u1E01C","u1E01D","u1E01E","u1E01F","u1E020","u1E021","u1E023","u1E024",
    "u1E026","u1E027","u1E028","u1E029","u1E02A","u1E130","u1E131","u1E132","u1E133","u1E134",
    "u1E135","u1E136","u1E137","u1E138","u1E139","u1E13A","u1E13B","u1E13C","u1E13D","u1E2AE",
    "u1E2EC","u1E2ED","u1E2EE","u1E2EF","u1E8D0","u1E8D1","u1E8D2","u1E8D3","u1E8D4","u1E8D5",
    "u1E8D6","u1E944","u1E945","u1E946","u1E947","u1E948","u1E949","u1E94A","u1E94B","u1F3FB",
    "u1F3FC","u1F3FD","u1F3FE","u1F3FF","uE0001","uE0020","uE0021","uE0022","uE0023","uE0024",
    "uE0025","uE0026","uE0027","uE0028","uE0029","uE002A","uE002B","uE002C","uE002D","uE002E",
    "uE002F","uE0030","uE0031","uE0032","uE0033","uE0034","uE0035","uE0036","uE0037","uE0038",
    "uE0039","uE003A","uE003B","uE003C","uE003D","uE003E","uE003F","uE0040","uE0041","uE0042",
    "uE0043","uE0044","uE0045","uE0046","uE0047","uE0048","uE0049","uE004A","uE004B","uE004C",
    "uE004D","uE004E","uE004F","uE0050","uE0051","uE0052","uE0053","uE0054","uE0055","uE0056",
    "uE0057","uE0058","uE0059","uE005A","uE005B","uE005C","uE005D","uE005E","uE005F","uE0060",
    "uE0061","uE0062","uE0063","uE0064","uE0065","uE0066","uE0067","uE0068","uE0069","uE006A",
    "uE006B","uE006C","uE006D","uE006E","uE006F","uE0070","uE0071","uE0072","uE0073","uE0074",
    "uE0075","uE0076","uE0077","uE0078","uE0079","uE007A","uE007B","uE007C","uE007D","uE007E",
    "uE007F","uE0100","uE0101","uE0102","uE0103","uE0104","uE0105","uE0106","uE0107","uE0108",
    "uE0109","uE010A","uE010B","uE010C","uE010D","uE010E","uE010F","uE0110","uE0111","uE0112",
    "uE0113","uE0114","uE0115","uE0116","uE0117","uE0118","uE0119","uE011A","uE011B","uE011C",
    "uE011D","uE011E","uE011F","uE0120","uE0121","uE0122","uE0123","uE0124","uE0125","uE0126",
    "uE0127","uE0128","uE0129","uE012A","uE012B","uE012C","uE012D","uE012E","uE012F","uE0130",
    "uE0131","uE0132","uE0133","uE0134","uE0135","uE0136","uE0137","uE0138","uE0139","uE013A",
    "uE013B","uE013C","uE013D","uE013E","uE013F","uE0140","uE0141","uE0142","uE0143","uE0144",
    "uE0145","uE0146","uE0147","uE0148","uE0149","uE014A","uE014B","uE014C","uE014D","uE014E",
    "uE014F","uE0150","uE0151","uE0152","uE0153","uE0154","uE0155","uE0156","uE0157","uE0158",
    "uE0159","uE015A","uE015B","uE015C","uE015D","uE015E","uE015F","uE0160","uE0161","uE0162",
    "uE0163","uE0164","uE0165","uE0166","uE0167","uE0168","uE0169","uE016A","uE016B","uE016C",
    "uE016D","uE016E","uE016F","uE0170","uE0171","uE0172","uE0173","uE0174","uE0175","uE0176",
    "uE0177","uE0178","uE0179","uE017A","uE017B","uE017C","uE017D","uE017E","uE017F","uE0180",
    "uE0181","uE0182","uE0183","uE0184","uE0185","uE0186","uE0187","uE0188","uE0189","uE018A",
    "uE018B","uE018C","uE018D","uE018E","uE018F","uE0190","uE0191","uE0192","uE0193","uE0194",
    "uE0195","uE0196","uE0197","uE0198","uE0199","uE019A","uE019B","uE019C","uE019D","uE019E",
    "uE019F","uE01A0","uE01A1","uE01A2","uE01A3","uE01A4","uE01A5","uE01A6","uE01A7","uE01A8",
    "uE01A9","uE01AA","uE01AB","uE01AC","uE01AD","uE01AE","uE01AF","uE01B0","uE01B1","uE01B2",
    "uE01B3","uE01B4","uE01B5","uE01B6","uE01B7","uE01B8","uE01B9","uE01BA","uE01BB","uE01BC",
    "uE01BD","uE01BE","uE01BF","uE01C0","uE01C1","uE01C2","uE01C3","uE01C4","uE01C5","uE01C6",
    "uE01C7","uE01C8","uE01C9","uE01CA","uE01CB","uE01CC","uE01CD","uE01CE","uE01CF","uE01D0",
    "uE01D1","uE01D2","uE01D3","uE01D4","uE01D5","uE01D6","uE01D7","uE01D8","uE01D9","uE01DA",
    "uE01DB","uE01DC","uE01DD","uE01DE","uE01DF","uE01E0","uE01E1","uE01E2","uE01E3","uE01E4",
    "uE01E5","uE01E6","uE01E7","uE01E8","uE01E9","uE01EA","uE01EB","uE01EC","uE01ED","uE01EE",
    "uE01EF"
    }


\* a cased character: a letter with an upper, lower or title case form
IsCased(c) ==
    \/ \E i \in 1..Len(UpperCase) : c = UpperCase[i] \/ c = LowerCase[i]
    \/ \E i \in 1..Len(UpperOther) : c = UpperOther[i]
    \/ \E i \in 1..Len(LowerOther) : c = LowerOther[i]
    \/ c \in OtherCased

RECURSIVE CasedBefore(_, _)
\* the nearest character at or before position j that is not case-ignorable is a cased letter
CasedBefore(text, j) ==
    IF j < 1 THEN FALSE
    ELSE IF text[j] \in CaseIgnorable THEN CasedBefore(text, j - 1)
    ELSE IsCased(text[j])

RECURSIVE CasedAfter(_, _)
CasedAfter(text, j) ==
    IF j > Len(text) THEN FALSE
    ELSE IF text[j] \in CaseIgnorable THEN CasedAfter(text, j + 1)
    ELSE IsCased(text[j])

RECURSIVE LowerFrom(_, _)
\* A capital sigma that ends a word becomes the final sigma.
\* Every other character becomes what it becomes standing alone: U+0130 two
\* characters, any other one one character.
LowerFrom(text, i) ==
    LET c == text[i]
        LowerChar ==
            IF \E j \in 1..Len(UpperCase) : UpperCase[j] = c
            THEN << LowerCase[CHOOSE j \in 1..Len(UpperCase) : UpperCase[j] = c] >>
            ELSE IF c = "u0130" THEN << "i", "u0307" >>
            ELSE IF c = "u03A3" THEN << "u03C3" >>
            ELSE IF \E j \in 1..Len(UpperOther) : UpperOther[j] = c
            THEN << LowerOther[CHOOSE j \in 1..Len(UpperOther) : UpperOther[j] = c] >>
            ELSE << c >>
    IN  IF i > Len(text) THEN << >>
        ELSE (IF c = "u03A3" /\ CasedBefore(text, i - 1) /\ ~CasedAfter(text, i + 1)
              THEN << "u03C2" >> ELSE LowerChar)
             \o LowerFrom(text, i + 1)

\* str.lower()
Lower(text) == LowerFrom(text, 1)

\* `word in text`: substring containment
Contains(text, word) ==
    \E i \in 1..(Len(text) - Len(word) + 1) : SubSeq(text, i, i + Len(word) - 1) = word

\* any(word in text for word in words)
AnyIn(words, text) == \E k \in 1..Len(words) : Contains(text, words[k])

\* footwear keywords, in the order of the source list.
Keywords_footwear ==
    << <<"b","o","o","t">>,
       <<"s","n","e","a","k","e","r">>,
       <<"s","h","o","e">>,
       <<"s","a","n","d","a","l">>,
       <<"l","o","a","f","e","r">>,
       <<"u30B9","u30CB","u30FC","u30AB","u30FC">>,
       <<"u30D6","u30FC","u30C4">>,
       <<"u9774">> >>

\* outerwear keywords, in the order of the source list.
Keywords_outerwear ==
    << <<"j","a","c","k","e","t">>,
       <<"c","o","a","t">>,
       <<"b","l","a","z","e","r">>,
       <<"p","a","r","k","a">>,
       <<"b","o","m","b","e","r">>,
       <<"u30B8","u30E3","u30B1","u30C3","u30C8">>,
       <<"u30B3","u30FC","u30C8">> >>

\* pants keywords, in the order of the source list.
Keywords_pants ==
    << <<"p","a","n","t">>,
       <<"j","e","a","n">>,
       <<"t","r","o","u","s","e","r">>,
       <<"u30D1","u30F3","u30C4">>,
       <<"u30B8","u30FC","u30F3","u30BA">>,
       <<"u30C7","u30CB","u30E0">> >>

\* t_shirt keywords, in the order of the source list.
Keywords_t_shirt ==
    << <<"t","-","s","h","i","r","t">>,
       <<"t","s","h","i","r","t">>,
       <<"t","e","e">>,
       <<"s","h","i","r","t">>,
       <<"t","o","p">>,
       <<"b","l","o","u","s","e">>,
       <<"t","u30B7","u30E3","u30C4">>,
       <<"u30B7","u30E3","u30C4">> >>

\* hoodie keywords, in the order of the source list.
Keywords_hoodie ==
    << <<"h","o","o","d","i","e">>,
       <<"s","w","e","a","t","s","h","i","r","t">>,
       <<"s","w","e","a","t","e","r">>,
       <<"p","u","l","l","o","v","e","r">>,
       <<"u30D5","u30FC","u30C7","u30A3">>,
       <<"u30B9","u30A6","u30A7","u30C3","u30C8">> >>

\* dress keywords, in the order of the source list.
Keywords_dress ==
    << <<"d","r","e","s","s">>,
       <<"s","k","i","r","t">>,
       <<"u30C9","u30EC","u30B9">>,
       <<"u30B9","u30AB","u30FC","u30C8">> >>

\* accessories keywords, in the order of the source list.
Keywords_accessories ==
    << <<"b","a","g">>,
       <<"w","a","l","l","e","t">>,
       <<"p","u","r","s","e">>,
       <<"b","a","c","k","p","a","c","k">>,
       <<"u30D0","u30C3","u30B0">>,
       <<"u8CA1","u5E03">> >>

\* jewelry keywords, in the order of the source list.
Keywords_jewelry ==
    << <<"j","e","w","e","l","r","y">>,
       <<"n","e","c","k","l","a","c","e">>,
       <<"r","i","n","g">>,
       <<"b","r","a","c","e","l","e","t">>,
       <<"w","a","t","c","h">>,
       <<"u30A2","u30AF","u30BB","u30B5","u30EA","u30FC">>,
       <<"u6642","u8A08">> >>
\* ClassifyLowered with the outerwear test moved ahead of the footwear test.
ClassifyLowered_outerwear_first(text) ==
    IF AnyIn(Keywords_outerwear, text) THEN "outerwear"
    ELSE IF AnyIn(Keywords_footwear, text) THEN "footwear"
    ELSE IF AnyIn(Keywords_pants, text) THEN "pants"
    ELSE IF AnyIn(Keywords_t_shirt, text) THEN "t_shirt"
    ELSE IF AnyIn(Keywords_hoodie, text) THEN "hoodie"
    ELSE IF AnyIn(Keywords_dress, text) THEN "dress"
    ELSE IF AnyIn(Keywords_accessories, text) THEN "accessories"
    ELSE IF AnyIn(Keywords_jewelry, text) THEN "jewelry"
    ELSE "general"

\* The code's chain of `if any(...): return` tests on the lowercased text.
ClassifyLowered(text) ==
    IF AnyIn(Keywords_footwear, text) THEN "footwear"
    ELSE IF AnyIn(Keywords_outerwear, text) THEN "outerwear"
    ELSE IF AnyIn(Keywords_pants, text) THEN "pants"
    ELSE IF AnyIn(Keywords_t_shirt, text) THEN "t_shirt"
    ELSE IF AnyIn(Keywords_hoodie, text) THEN "hoodie"
    ELSE IF AnyIn(Keywords_dress, text) THEN "dress"
    ELSE IF AnyIn(Keywords_accessories, text) THEN "accessories"
    ELSE IF AnyIn(Keywords_jewelry, text) THEN "jewelry"
    ELSE "general"

detect_clothing_category(item_name, item_description) ==
    Let(Lower(item_name \o <<" ">> \o item_description), ClassifyLowered)

\* category_dimensions.get(category, category_dimensions['general']): <<L, W, H>> in cm
estimate_package_dimensions_from_category(category) ==
    CASE category = "footwear"    -> <<35, 25, 15>>
      [] category = "outerwear"   -> <<45, 35, 10>>
      [] category = "pants"       -> <<40, 30, 5>>
      [] category = "t_shirt"     -> <<30, 25, 3>>
      [] category = "hoodie"      -> <<35, 30, 8>>
      [] category = "dress"       -> <<40, 30, 5>>
      [] category = "accessories" -> <<25, 20, 10>>
      [] category = "jewelry"     -> <<15, 10, 5>>
      [] OTHER                    -> <<35, 25, 10>>

\* category_weights.get(category, category_weights['general'])
estimate_weight_from_category(category) ==
    CASE category = "footwear"    -> Grams(1200)
      [] category = "outerwear"   -> Grams(800)
      [] category = "pants"       -> Grams(400)
      [] category = "t_shirt"     -> Grams(200)
      [] category = "hoodie"      -> Grams(600)
      [] category = "dress"       -> Grams(500)
      [] category = "accessories" -> Grams(300)
      [] category = "jewelry"     -> Grams(100)
      [] OTHER                    -> Grams(400)

\* ------------------------------------------------------------ rate models
\* Volumetric weight: (length * width * height) / 5000 kg, in weight units.
calculate_volumetric_weight(length, width, height) ==
    IF length <= 0 \/ width <= 0 \/ height <= 0 THEN 0
    ELSE 800 * (length * width * height)

\* (chargeable_weight - 2.0) * 3000: 0.003 JPY for every mg above 2 kg.
ExcessCost(chargeable_weight) ==
    Decimal(3 * ((NearestWeight(chargeable_weight) - Grams(2000)) \div 4), 3)

\* FedexAirCost with each break charged at the next band's rate.
FedexAirCost_exclusive_breaks(chargeable_weight) ==
    IF chargeable_weight < Grams(300) THEN Jpy(Yen(5400))
    ELSE IF chargeable_weight < Grams(500) THEN Jpy(Yen(6500))
    ELSE IF chargeable_weight < Grams(1000) THEN Jpy(Yen(8278))
    ELSE IF chargeable_weight < Grams(1500) THEN Jpy(Yen(10000))
    ELSE IF chargeable_weight < Grams(2000) THEN Jpy(Yen(12600))
    ELSE DecAdd(Jpy(Yen(12600)), ExcessCost(chargeable_weight))

\* The FedEx Air base rate of a chargeable weight, in JPY.
FedexAirCost(chargeable_weight) ==
    IF chargeable_weight <= Grams(300) THEN Jpy(Yen(5400))
    ELSE IF chargeable_weight <= Grams(500) THEN Jpy(Yen(6500))
    ELSE IF chargeable_weight <= Grams(1000) THEN Jpy(Yen(8278))
    ELSE IF chargeable_weight <= Grams(1500) THEN Jpy(Yen(10000))
    ELSE IF chargeable_weight <= Grams(2000) THEN Jpy(Yen(12600))
    ELSE DecAdd(Jpy(Yen(12600)), ExcessCost(chargeable_weight))

ShippingCost(method, cost_jpy, delivery_days) ==
    [method |-> method, cost_jpy |-> cost_jpy, cost_usd |-> Usd(0), delivery_days |-> delivery_days]

\* The quoted carriers: the keys of shipping_options.
Carriers == {"FedEx Air", "EMS", "FedEx Economy", "DHL", "Buyee Air Delivery"}

\* shipping_options: carrier -> ShippingCost, from the FedEx Air base rate.
ShippingOptions(fedex_air_cost) ==
        [m \in Carriers |->
            CASE m = "FedEx Air"          -> ShippingCost(m, fedex_air_cost, 3)
              [] m = "EMS"                -> ShippingCost(m, DecMul(fedex_air_cost, Decimal(75, 2)), 5)
              [] m = "FedEx Economy"      -> ShippingCost(m, DecMul(fedex_air_cost, Decimal(85, 2)), 7)
              [] m = "DHL"                -> ShippingCost(m, DecMul(fedex_air_cost, Decimal(95, 2)), 4)
              [] m = "Buyee Air Delivery" -> ShippingCost(m, DecMul(fedex_air_cost, Decimal(90, 2)), 4)]

estimate_international_shipping(weight_kg, length, width, height) ==
    LET volumetric_weight == calculate_volumetric_weight(length, width, height)
        chargeable_weight == Max2(weight_kg, volumetric_weight)
    IN  Let(FedexAirCost(chargeable_weight), ShippingOptions)

\* calculate_buyee_service_fee with 9,000 JPY itself in the lowest bracket.
calculate_buyee_service_fee_inclusive_9000(item_price_jpy, platform) ==
    LET total_fee_e4 ==
            IF item_price_jpy <= Yen(9000) THEN item_price_jpy * 473
            ELSE IF item_price_jpy < Yen(10000) THEN item_price_jpy * 780
            ELSE item_price_jpy * 717
    IN  Yen(RoundHalfEven(total_fee_e4, 10000 * Yen(1)))

\* Service fee in 1/100 JPY of an item price in 1/100 JPY: a percentage by
\* bracket, then round() to whole JPY.  `platform` is not read by the code.
calculate_buyee_service_fee(item_price_jpy, platform) ==
    LET total_fee_e4 ==   \* total_fee * 10^4, in 1/100 JPY
            IF item_price_jpy < Yen(9000) THEN item_price_jpy * 473
            ELSE IF item_price_jpy < Yen(10000) THEN item_price_jpy * 780
            ELSE item_price_jpy * 717
    IN  Yen(RoundHalfEven(total_fee_e4, 10000 * Yen(1)))

US_TARIFF_RATE_JAPAN == Decimal(15, 2)

\* calculate_us_customs with the former 800 USD de minimis exemption.
calculate_us_customs_de_minimis(declared_value_usd) ==
    IF DecLeq(declared_value_usd, Usd(800)) THEN <<Usd(0), Usd(0)>>
    ELSE <<DecMul(declared_value_usd, US_TARIFF_RATE_JAPAN), Usd(5)>>

\* <<duty, processing_fee>> in USD.
calculate_us_customs(declared_value_usd) ==
    << DecMul(declared_value_usd, US_TARIFF_RATE_JAPAN),
       IF DecPositive(declared_value_usd) THEN Usd(5) ELSE Usd(0) >>
\* ------------------------------------------------------------- data model
\* PackageInfo(...): the dataclass with its defaults (package_id is never read
\* by the calculator and is left out).
PackageInfo(price, declared, weight, length, width, height, name) ==
    [item_price_jpy |-> price, declared_value_jpy |-> declared, weight_kg |-> weight,
     length_cm |-> length, width_cm |-> width, height_cm |-> height,
     domestic_shipping_jpy |-> 0, buyee_service_fee_jpy |-> 0, item_name |-> name]

\* ---------------------------------------------------------- consolidation
\* EstimatedDimensions with each threshold in the lighter band.
EstimatedDimensions_inclusive_bands(total_weight) ==
    IF total_weight <= Grams(500) THEN <<30, 20, 15>>
    ELSE IF total_weight <= Grams(1000) THEN <<40, 30, 20>>
    ELSE IF total_weight <= Grams(2000) THEN <<50, 40, 25>>
    ELSE <<60, 50, 30>>

\* The dimension triple substituted when an aggregate dimension is missing.
EstimatedDimensions(total_weight) ==
    IF total_weight < Grams(500) THEN <<30, 20, 15>>
    ELSE IF total_weight < Grams(1000) THEN <<40, 30, 20>>
    ELSE IF total_weight < Grams(2000) THEN <<50, 40, 25>>
    ELSE <<60, 50, 30>>

\* A weight a binary float holds exactly: a multiple of 1/64 kg (15.625 g, the
\* finest binary fraction of a kg that is a whole number of mg).
IsDyadic(weight) == weight % (Grams(1000) \div 64) = 0

\* sum(...) of float weights, added left to right from 0.  One addend, or
\* addends the floats hold exactly, give the exact sum; otherwise the float sum
\* is the exact sum or the float beside it, below or above (0.7 + 0.2 + 0.1 is
\* below 1.0 and 0.1 + 0.2 is above 0.3).
FloatSum(weights) ==
    LET exact == SeqSum(weights)
    IN  IF Len(weights) <= 1 \/ \A i \in 1..Len(weights) : IsDyadic(weights[i])
        THEN {exact}
        ELSE {exact - 1, exact, exact + 1}

\* [x for x in (field of each package) if x > 0]
PositiveOf(package_infos, field) ==
    SelectSeq([i \in 1..Len(package_infos) |-> package_infos[i][field]], LAMBDA x : x > 0)

\* calculate_consolidated_shipping with the tallest height in place of the stack's.
calculate_consolidated_shipping_max_height(package_infos) ==
    IF package_infos = <<>> THEN { <<0, 0, 0, 0>> }
    ELSE
        LET max_length == SeqMax(PositiveOf(package_infos, "length_cm"))
            max_width == SeqMax(PositiveOf(package_infos, "width_cm"))
            max_height == SeqMax(PositiveOf(package_infos, "height_cm"))
        IN  { IF max_length = 0 \/ max_width = 0 \/ max_height = 0
              THEN <<total_weight>> \o EstimatedDimensions(total_weight)
              ELSE <<total_weight, max_length, max_width, max_height>> :
              total_weight \in FloatSum(PositiveOf(package_infos, "weight_kg")) }

\* The tuples <<total_weight_kg, max_length_cm, max_width_cm, total_height_cm>>
\* the call may return: one per value the float sum of the weights may take.
\* The dimensions are whole cm, which the floats add exactly.
calculate_consolidated_shipping(package_infos) ==
    IF package_infos = <<>> THEN { <<0, 0, 0, 0>> }
    ELSE
        LET max_length == SeqMax(PositiveOf(package_infos, "length_cm"))
            max_width == SeqMax(PositiveOf(package_infos, "width_cm"))
            total_height == SeqSum(PositiveOf(package_infos, "height_cm"))
        IN  { IF max_length = 0 \/ max_width = 0 \/ total_height = 0
              THEN <<total_weight>> \o EstimatedDimensions(total_weight)
              ELSE <<total_weight, max_length, max_width, total_height>> :
              total_weight \in FloatSum(PositiveOf(package_infos, "weight_kg")) }

\* ------------------------------------------------------------- exchange rate
\* The rate source's answer to one GET: an exception of requests.get, or a
\* response with a status code and a body, which is JSON or not, has a `rates`
\* map or not, and in it under 'USD' a number (the rate in 1/10000 USD per
\* JPY), null (None), a string (-3), or no such key.
NoKey == -2

RateError(error) ==
    [error |-> error, status_code |-> 0, json |-> FALSE, rates |-> FALSE, usd |-> NoKey]

RateResponse(status_code, json, rates, usd) ==
    [error |-> "none", status_code |-> status_code, json |-> json, rates |-> rates,
     usd |-> usd]

\* get_exchange_rate with no raise_for_status(): the body of an error response is read.
get_exchange_rate_any_status(answer) ==
    IF answer.error = "none" /\ answer.json /\ answer.rates /\ answer.usd # NoKey
    THEN answer.usd
    ELSE 67

\* data['rates']['USD'] whatever it holds (a number, None or a string), or the
\* fallback 0.0067 on any exception: of the GET, of raise_for_status(), of
\* response.json(), of either key lookup.
get_exchange_rate(answer) ==
    IF /\ answer.error = "none"
       /\ answer.status_code < 400
       /\ answer.json /\ answer.rates /\ answer.usd # NoKey
    THEN answer.usd
    ELSE 67

\* A rate the format spec `:.6f` and the products accept: a number.
IsNumber(rate) == rate >= 0

\* ----------------------------------------------------------------- links
\* A link is what the code reads of it: whether its path holds '/item/' or
\* '/auction/', and which of the words it tests for occur anywhere in it.
Link(item_path, auction_path, words) ==
    [item_path |-> item_path, auction_path |-> auction_path, words |-> words]

is_item_link(buyee_link) ==
    \/ buyee_link.item_path
    \/ buyee_link.auction_path
    \/ "yahoo" \in buyee_link.words
    \/ "mercari" \in buyee_link.words
    \/ "rakuma" \in buyee_link.words

is_rakuma(buyee_link) == "rakuma" \in buyee_link.words
is_yahoo(buyee_link) == "yahoo" \in buyee_link.words \/ "auction" \in buyee_link.words
is_mercari(buyee_link) == "mercari" \in buyee_link.words

\* ------------------------------------------------------------- extraction
\* A fetched page is what the extraction's queries find in it:
\*   name         the title text the name selectors yield
\*   ld           the JSON-LD blocks in document order, each the offer prices
\*                of its `offers` (a single offer object is a list of one)
\*   meta         the product:price:amount meta content (0: none)
\*   data         the data-price attribute values in document order
\*   sel_market   the prices the marketplace's own selectors yield, in
\*                selector order
\*   sel_general  the prices the general selectors yield
\*   text         the amounts the page text writes, in text order, each as
\*                written: see Amount
\*   weights      the first match of each weight pattern, in pattern order:
\*                the number as written, in thousandths (pages write
\*                weights with up to three decimals), and the unit written
\*   dims         the first match of each dimension pattern, in pattern order
\* Prices are in 1/100 JPY; BadNumber is a value float() rejects.
BadNumber == -1

InRange(price) == Yen(100) <= price /\ price <= Yen(10000000)

RECURSIVE FirstValidOffer(_)
\* The loop over an offers list: the first in-range price, 0 if none; a value
\* float() rejects raises and ends the block.
FirstValidOffer(offers) ==
    IF offers = <<>> THEN 0
    ELSE IF Head(offers) = BadNumber THEN 0
    ELSE IF InRange(Head(offers)) THEN Head(offers)
    ELSE FirstValidOffer(Tail(offers))

RECURSIVE PriceFromJsonLd(_, _)
\* The loop over the JSON-LD scripts: every block with a valid offer assigns
\* the price (the loop over scripts has no break).
PriceFromJsonLd(blocks, price) ==
    IF blocks = <<>> THEN price
    ELSE LET p == FirstValidOffer(Head(blocks))
         IN  PriceFromJsonLd(Tail(blocks), IF p > 0 THEN p ELSE price)

RECURSIVE FirstInRange(_)
\* for ...: if in range: assign; break  (unparsable values are skipped)
FirstInRange(prices) ==
    IF prices = <<>> THEN 0
    ELSE IF InRange(Head(prices)) THEN Head(prices)
    ELSE FirstInRange(Tail(prices))

SeqRange(s) == {s[i] : i \in 1..Len(s)}

SetMax(S) == CHOOSE x \in S : \A y \in S : y <= x

\* An amount as the page text writes it: a whole number of JPY (`amount`, in
\* 1/100 JPY) with thousands separators or as bare digits, with two decimals
\* after a point or none (NoCents), and the currency mark written before or
\* after it: the yen sign U+00A5, 'JPY', 'jpy' or '$' before, the yen character
\* U+5186, 'YEN' or 'yen' after, "" for none.
NoCents == -1

Amount(before, amount, grouped, cents, after) ==
    [before |-> before, amount |-> amount, grouped |-> grouped, cents |-> cents,
     after |-> after]

RECURSIVE DigitCount(_)
DigitCount(n) == IF n < 10 THEN 1 ELSE 1 + DigitCount(n \div 10)

RECURSIVE PowerOfTen(_)
PowerOfTen(k) == IF k = 0 THEN 1 ELSE 10 * PowerOfTen(k - 1)

\* The first k digits of n, all of them if it has no more.
LeadingDigits(n, k) ==
    IF DigitCount(n) <= k THEN n ELSE n \div PowerOfTen(DigitCount(n) - k)

\* re.findall of the k-th item pattern over the page text, as floats.
\* The pattern matches at a written amount (re.IGNORECASE) with the yen
\* character after, the yen sign before, JPY before, YEN after.
\* \d{1,3}(?:[,]\d{3})* before a mark captures the decimals if any are written,
\* else the whole of an amount with separators and the last three digits of
\* bare digits; after the yen sign it is the whole of an amount with separators
\* and the first three digits of bare digits; after JPY the separators are
\* optional, and bare digits are read in threes after the first one to three.
ItemPatternMatches(k, text) ==
    LET Hit(written) ==
            CASE k = 1 -> written.after = "u5186"
              [] k = 2 -> written.before = "uA5"
              [] k = 3 -> written.before \in {"JPY", "jpy"}
              [] k = 4 -> written.after \in {"YEN", "yen"}
        Capture(written) ==
            LET whole == written.amount \div Yen(1)
                digits == DigitCount(whole)
            IN  Yen(CASE k \in {1, 4} ->
                            IF written.cents # NoCents THEN written.cents
                            ELSE IF written.grouped THEN whole
                            ELSE whole % 1000
                      [] k = 2 ->
                            IF written.grouped THEN whole ELSE LeadingDigits(whole, 3)
                      [] k = 3 ->
                            IF written.grouped \/ digits < 3 THEN whole
                            ELSE LeadingDigits(whole, digits - (digits % 3)))
        hits == SelectSeq(text, Hit)
    IN  [i \in 1..Len(hits) |-> Capture(hits[i])]

\* The matches of the four item patterns, pattern by pattern.
ItemPriceMatches(text) ==
    ItemPatternMatches(1, text) \o ItemPatternMatches(2, text)
        \o ItemPatternMatches(3, text) \o ItemPatternMatches(4, text)

\* re.findall of the k-th shipment pattern over the page text, as floats.
\* The pattern matches at a written amount (no IGNORECASE) with the yen
\* character after, JPY before, the dollar sign before.
\* (\d+[,]\d+|\d+) before the yen character captures the decimals if any are
\* written, else the whole of bare digits and at most the last two groups of
\* an amount with separators; \d+[,]?\d* after JPY is the whole of bare digits
\* and at most the first two groups; \d+\.?\d* after the dollar sign is bare
\* digits with their decimals and the first group alone.
ShipmentPatternMatches(k, text) ==
    LET Hit(written) ==
            CASE k = 1 -> written.after = "u5186"
              [] k = 2 -> written.before = "JPY"
              [] k = 3 -> written.before = "$"
        \* the number of digits before the first separator
        LeadingGroup(n) == ((DigitCount(n) - 1) % 3) + 1
        Capture(written) ==
            LET whole == written.amount \div Yen(1)
            IN  CASE k = 1 ->
                        IF written.cents # NoCents THEN Yen(written.cents)
                        ELSE IF written.grouped THEN Yen(whole % 1000000)
                        ELSE Yen(whole)
                  [] k = 2 ->
                        IF written.grouped
                        THEN Yen(LeadingDigits(whole, LeadingGroup(whole) + 3))
                        ELSE Yen(whole)
                  [] k = 3 ->
                        IF written.grouped /\ whole >= 1000
                        THEN Yen(LeadingDigits(whole, LeadingGroup(whole)))
                        ELSE IF written.cents # NoCents THEN Yen(whole) + written.cents
                        ELSE Yen(whole)
        hits == SelectSeq(text, Hit)
    IN  [i \in 1..Len(hits) |-> Capture(hits[i])]

\* The loop over the shipment patterns: the first match of the first pattern
\* that has one, 0 if none has.
ShipmentPrice(text) ==
    IF ShipmentPatternMatches(1, text) # <<>> THEN Head(ShipmentPatternMatches(1, text))
    ELSE IF ShipmentPatternMatches(2, text) # <<>> THEN Head(ShipmentPatternMatches(2, text))
    ELSE IF ShipmentPatternMatches(3, text) # <<>> THEN Head(ShipmentPatternMatches(3, text))
    ELSE 0

\* The marketplace minimum of the free-text stage.
MinimumPrice(buyee_link, all_prices) ==
    IF is_rakuma(buyee_link) /\ Cardinality(all_prices) > 1 THEN Yen(2000)
    ELSE IF is_yahoo(buyee_link) THEN Yen(5000)
    ELSE IF is_mercari(buyee_link) THEN Yen(1000)
    ELSE Yen(1000)

\* PriceFromText taking the smallest candidate the filter keeps.
PriceFromText_smallest_kept(buyee_link, text) ==
    LET all_prices == {p \in SeqRange(ItemPriceMatches(text)) : InRange(p)}
        filtered_prices == {p \in all_prices : p >= MinimumPrice(buyee_link, all_prices)}
    IN  IF all_prices = {} THEN 0
        ELSE IF filtered_prices # {}
             THEN CHOOSE x \in filtered_prices : \A y \in filtered_prices : x <= y
        ELSE SetMax(all_prices)

\* Free-text stage: the in-range candidates, the marketplace filter, the maximum.
PriceFromText(buyee_link, text) ==
    LET all_prices == {p \in SeqRange(ItemPriceMatches(text)) : InRange(p)}
        filtered_prices == {p \in all_prices : p >= MinimumPrice(buyee_link, all_prices)}
    IN  IF all_prices = {} THEN 0
        ELSE IF filtered_prices # {} THEN SetMax(filtered_prices)
        ELSE SetMax(all_prices)

\* Selector stage.  Rakuma: its own selectors only.  Otherwise the Yahoo or
\* Mercari selectors (Yahoo first), then the general selectors' maximum.
PriceFromSelectors(buyee_link, page) ==
    IF is_rakuma(buyee_link) THEN FirstInRange(page.sel_market)
    ELSE
        LET specific == IF is_yahoo(buyee_link) \/ is_mercari(buyee_link)
                        THEN FirstInRange(page.sel_market) ELSE 0
            found_prices == {p \in SeqRange(page.sel_general) : InRange(p)}
        IN  IF specific > 0 THEN specific
            ELSE IF found_prices # {} THEN SetMax(found_prices)
            ELSE 0

\* ItemPrice with the free-text stage run whatever the earlier stages found.
ItemPrice_text_overrides(buyee_link, page) ==
    LET s1 == PriceFromJsonLd(page.ld, 0)
        s2 == IF s1 # 0 THEN s1 ELSE IF InRange(page.meta) THEN page.meta ELSE 0
        s3 == IF s2 # 0 THEN s2 ELSE FirstInRange(page.data)
        s4 == IF s3 # 0 THEN s3 ELSE PriceFromSelectors(buyee_link, page)
        s5 == PriceFromText(buyee_link, page.text)
    IN  IF s5 # 0 THEN s5 ELSE s4

\* The item price of an item page: the fallback chain of extract_item_info.
ItemPrice(buyee_link, page) ==
    LET s1 == PriceFromJsonLd(page.ld, 0)
        s2 == IF s1 # 0 THEN s1 ELSE IF InRange(page.meta) THEN page.meta ELSE 0
        s3 == IF s2 # 0 THEN s2 ELSE FirstInRange(page.data)
        s4 == IF s3 # 0 THEN s3 ELSE PriceFromSelectors(buyee_link, page)
    IN  IF s4 # 0 THEN s4 ELSE PriceFromText(buyee_link, page.text)

\* A weight match as the item extraction reads it, in weight units: every
\* pattern contains the letter g, so a number above 10 is divided by 1000
\* whatever unit was written, and a number up to 10 is kilograms.  A
\* thousandth of a gram is 4 weight units, a thousandth of a kilogram 4000.
RECURSIVE ItemWeight(_)
\* The first pattern whose first match, converted, lies in [0.01, 50] kg.
ItemWeight(matches) ==
    IF matches = <<>> THEN 0
    ELSE LET match == Head(matches)
             weight == IF match.num > 10 * 1000 THEN 4 * match.num ELSE 4000 * match.num
         IN  IF Grams(10) <= weight /\ weight <= Grams(50000) THEN weight
             ELSE ItemWeight(Tail(matches))

RECURSIVE ItemDimensions(_)
\* The first pattern whose first match has every side in [0.1, 200] cm.
ItemDimensions(matches) ==
    IF matches = <<>> THEN <<0, 0, 0>>
    ELSE LET dims == Head(matches)
         IN  IF \A i \in 1..3 : 1 <= dims[i] /\ dims[i] <= 200 THEN dims
             ELSE ItemDimensions(Tail(matches))

\* DomesticShipping with the tiers' upper ends included.
DomesticShipping_inclusive_tiers(weight) ==
    IF weight <= Grams(300) THEN Yen(800)
    ELSE IF weight <= Grams(500) THEN Yen(1000)
    ELSE Yen(1200)

\* The 3-tier domestic shipping estimate of a weight.
DomesticShipping(weight) ==
    IF weight < Grams(300) THEN Yen(800)
    ELSE IF weight < Grams(500) THEN Yen(1000)
    ELSE Yen(1200)

\* ItemInfoFrom with weight and dimensions both estimated when either is 0.
ItemInfoFrom_estimates_both(found, category, name) ==
    LET price == found[1]
        missing == found[2] = 0 \/ found[3][1] = 0
        weight == IF missing THEN estimate_weight_from_category(category) ELSE found[2]
        dims == IF missing THEN estimate_package_dimensions_from_category(category)
                ELSE found[3]
        base == PackageInfo(price, price, weight, dims[1], dims[2], dims[3], name)
    IN  [base EXCEPT !.domestic_shipping_jpy =
            IF weight > 0 THEN DomesticShipping(weight)
            ELSE IF price > 0
                 THEN DomesticShipping(estimate_weight_from_category(category))
                 ELSE 0]

\* The tail of extract_item_info: category fallback for a weight or length
\* still 0, each filled only if 0, then the domestic shipping estimate.
\* found = <<price, weight, dimensions>> as extracted from the page.
ItemInfoFrom(found, category, name) ==
    LET price == found[1]
        weight == IF found[2] = 0 THEN estimate_weight_from_category(category) ELSE found[2]
        dims == IF found[3][1] = 0 THEN estimate_package_dimensions_from_category(category)
                ELSE found[3]
        base == PackageInfo(price, price, weight, dims[1], dims[2], dims[3], name)
    IN  [base EXCEPT !.domestic_shipping_jpy =
            IF weight > 0 THEN DomesticShipping(weight)
            ELSE IF price > 0
                 THEN DomesticShipping(estimate_weight_from_category(category))
                 ELSE 0]

\* extract_item_info on a fetched page: the PackageInfo it returns.
extract_item_info(buyee_link, page) ==
    Let(<< <<ItemPrice(buyee_link, page), ItemWeight(page.weights), ItemDimensions(page.dims)>>,
           detect_clothing_category(page.name, <<>>) >>,
        LAMBDA v : ItemInfoFrom(v[1], v[2], page.name))

\* The shipment-page branch of extract_package_info: the first price match, the
\* first weight match divided by 1000, the first dimension match; no range
\* checks, no category fallback, no domestic shipping.
ExtractShipmentInfo(page) ==
    LET price == ShipmentPrice(page.text)
        weight == IF page.weights = <<>> THEN 0 ELSE 4 * Head(page.weights).num
        dims == IF page.dims = <<>> THEN <<0, 0, 0>> ELSE Head(page.dims)
    IN  PackageInfo(price, price, weight, dims[1], dims[2], dims[3], page.name)

\* extract_package_info(link): fetched is the page fetch's result.  A failed
\* fetch raises; otherwise the PackageInfo of the item or shipment page.
extract_package_info(buyee_link, fetched) ==
    IF ~fetched.ok THEN [raised |-> TRUE]
    ELSE [raised |-> FALSE,
          info |-> IF is_item_link(buyee_link)
                   THEN extract_item_info(buyee_link, fetched.page)
                   ELSE ExtractShipmentInfo(fetched.page)]

\* ------------------------------------------------------------- landed cost
\* ApplyManualOverrides with the manual price written to item_price_jpy only.
ApplyManualOverrides_price_only(package_info, manual) ==
    [package_info EXCEPT
        !.weight_kg = IF manual.weight_kg # 0 THEN manual.weight_kg ELSE @,
        !.length_cm = IF manual.length_cm # 0 THEN manual.length_cm ELSE @,
        !.width_cm = IF manual.width_cm # 0 THEN manual.width_cm ELSE @,
        !.height_cm = IF manual.height_cm # 0 THEN manual.height_cm ELSE @,
        !.item_price_jpy = IF manual.price_jpy # 0 THEN manual.price_jpy ELSE @]

\* `if manual_x: package_info.x = manual_x` for the five overrides.  A manual
\* value of 0 is "not supplied": the code tests truthiness, so None and 0 act alike.
ApplyManualOverrides(package_info, manual) ==
    [package_info EXCEPT
        !.weight_kg = IF manual.weight_kg # 0 THEN manual.weight_kg ELSE @,
        !.length_cm = IF manual.length_cm # 0 THEN manual.length_cm ELSE @,
        !.width_cm = IF manual.width_cm # 0 THEN manual.width_cm ELSE @,
        !.height_cm = IF manual.height_cm # 0 THEN manual.height_cm ELSE @,
        !.item_price_jpy = IF manual.price_jpy # 0 THEN manual.price_jpy ELSE @,
        !.declared_value_jpy = IF manual.price_jpy # 0 THEN manual.price_jpy ELSE @]

\* SelectMethod with the base carrier as the substitute.
SelectMethod_fedex_default(shipping_method, shipping_options) ==
    IF shipping_method \notin DOMAIN shipping_options THEN "FedEx Air" ELSE shipping_method

\* `if shipping_method not in shipping_options: shipping_method = "EMS"`
SelectMethod(shipping_method, shipping_options) ==
    IF shipping_method \notin DOMAIN shipping_options THEN "EMS" ELSE shipping_method

\* LandedCostOf with the processing fee left out of total_usd.
LandedCostOf_total_without_fee(exchange_rate, package_info, shipping_options, shipping_method) ==
    LET method == SelectMethod(shipping_method, shipping_options)
        selected_shipping == shipping_options[method]
        item_price_usd == DecMul(Jpy(package_info.item_price_jpy), Rate(exchange_rate))
        domestic_shipping_usd == DecMul(Jpy(package_info.domestic_shipping_jpy), Rate(exchange_rate))
        buyee_service_fee_usd == DecMul(Jpy(package_info.buyee_service_fee_jpy), Rate(exchange_rate))
        international_shipping_usd == DecMul(selected_shipping.cost_jpy, Rate(exchange_rate))
        declared_value_usd == DecMul(Jpy(package_info.declared_value_jpy), Rate(exchange_rate))
        customs == calculate_us_customs(declared_value_usd)
    IN  [item_price_jpy |-> Jpy(package_info.item_price_jpy),
         item_price_usd |-> item_price_usd,
         domestic_shipping_jpy |-> Jpy(package_info.domestic_shipping_jpy),
         domestic_shipping_usd |-> domestic_shipping_usd,
         buyee_service_fee_jpy |-> Jpy(package_info.buyee_service_fee_jpy),
         buyee_service_fee_usd |-> buyee_service_fee_usd,
         international_shipping_jpy |-> selected_shipping.cost_jpy,
         international_shipping_usd |-> international_shipping_usd,
         us_customs_duty_usd |-> customs[1],
         us_customs_tax_usd |-> customs[2],
         total_jpy |-> DecSum(<<Jpy(package_info.item_price_jpy),
                                Jpy(package_info.domestic_shipping_jpy),
                                Jpy(package_info.buyee_service_fee_jpy),
                                selected_shipping.cost_jpy>>),
         total_usd |-> DecSum(<<item_price_usd, domestic_shipping_usd, buyee_service_fee_usd,
                                international_shipping_usd, customs[1]>>),
         exchange_rate |-> exchange_rate,
         shipping_method |-> method]

\* LandedCostOf with the shipping quote converted at the fallback rate.
LandedCostOf_quote_at_fallback(exchange_rate, package_info, shipping_options, shipping_method) ==
    LET method == SelectMethod(shipping_method, shipping_options)
        selected_shipping == shipping_options[method]
        item_price_usd == DecMul(Jpy(package_info.item_price_jpy), Rate(exchange_rate))
        domestic_shipping_usd == DecMul(Jpy(package_info.domestic_shipping_jpy), Rate(exchange_rate))
        buyee_service_fee_usd == DecMul(Jpy(package_info.buyee_service_fee_jpy), Rate(exchange_rate))
        international_shipping_usd == DecMul(selected_shipping.cost_jpy, Rate(67))
        declared_value_usd == DecMul(Jpy(package_info.declared_value_jpy), Rate(exchange_rate))
        customs == calculate_us_customs(declared_value_usd)
    IN  [item_price_jpy |-> Jpy(package_info.item_price_jpy),
         item_price_usd |-> item_price_usd,
         domestic_shipping_jpy |-> Jpy(package_info.domestic_shipping_jpy),
         domestic_shipping_usd |-> domestic_shipping_usd,
         buyee_service_fee_jpy |-> Jpy(package_info.buyee_service_fee_jpy),
         buyee_service_fee_usd |-> buyee_service_fee_usd,
         international_shipping_jpy |-> selected_shipping.cost_jpy,
         international_shipping_usd |-> international_shipping_usd,
         us_customs_duty_usd |-> customs[1],
         us_customs_tax_usd |-> customs[2],
         total_jpy |-> DecSum(<<Jpy(package_info.item_price_jpy),
                                Jpy(package_info.domestic_shipping_jpy),
                                Jpy(package_info.buyee_service_fee_jpy),
                                selected_shipping.cost_jpy>>),
         total_usd |-> DecSum(<<item_price_usd, domestic_shipping_usd, buyee_service_fee_usd,
                                international_shipping_usd, customs[1], customs[2]>>),
         exchange_rate |-> exchange_rate,
         shipping_method |-> method]

\* The tail of calculate_landed_cost, from the quote selection on.  The
\* amounts of the LandedCost are decimal numbers; exchange_rate stays the
\* rate in 1/10000 USD per JPY.
LandedCostOf(exchange_rate, package_info, shipping_options, shipping_method) ==
    LET method == SelectMethod(shipping_method, shipping_options)
        selected_shipping == shipping_options[method]
        item_price_usd == DecMul(Jpy(package_info.item_price_jpy), Rate(exchange_rate))
        domestic_shipping_usd == DecMul(Jpy(package_info.domestic_shipping_jpy), Rate(exchange_rate))
        buyee_service_fee_usd == DecMul(Jpy(package_info.buyee_service_fee_jpy), Rate(exchange_rate))
        international_shipping_usd == DecMul(selected_shipping.cost_jpy, Rate(exchange_rate))
        declared_value_usd == DecMul(Jpy(package_info.declared_value_jpy), Rate(exchange_rate))
        customs == calculate_us_customs(declared_value_usd)
    IN  [item_price_jpy |-> Jpy(package_info.item_price_jpy),
         item_price_usd |-> item_price_usd,
         domestic_shipping_jpy |-> Jpy(package_info.domestic_shipping_jpy),
         domestic_shipping_usd |-> domestic_shipping_usd,
         buyee_service_fee_jpy |-> Jpy(package_info.buyee_service_fee_jpy),
         buyee_service_fee_usd |-> buyee_service_fee_usd,
         international_shipping_jpy |-> selected_shipping.cost_jpy,
         international_shipping_usd |-> international_shipping_usd,
         us_customs_duty_usd |-> customs[1],
         us_customs_tax_usd |-> customs[2],
         total_jpy |-> DecSum(<<Jpy(package_info.item_price_jpy),
                                Jpy(package_info.domestic_shipping_jpy),
                                Jpy(package_info.buyee_service_fee_jpy),
                                selected_shipping.cost_jpy>>),
         total_usd |-> DecSum(<<item_price_usd, domestic_shipping_usd, buyee_service_fee_usd,
                                international_shipping_usd, customs[1], customs[2]>>),
         exchange_rate |-> exchange_rate,
         shipping_method |-> method]

\* The head of calculate_landed_cost: the package_info after extraction (or,
\* when extraction raised, built from the manual values), the manual
\* overrides and the service fee.
PackageInfoFor(buyee_link, fetched, manual) ==
    LET \* the platform named for the fee calculation
        platform ==
            IF "rakuma" \in buyee_link.words THEN "rakuma"
            ELSE IF "mercari" \in buyee_link.words THEN "mercari"
            ELSE IF "yahoo" \in buyee_link.words \/ "auction" \in buyee_link.words THEN "yahoo"
            ELSE "general"
        \* `if package_info.buyee_service_fee_jpy == 0: ... = calculate_buyee_service_fee(...)`
        WithServiceFee(package_info) ==
            IF package_info.buyee_service_fee_jpy = 0
            THEN [package_info EXCEPT !.buyee_service_fee_jpy =
                      calculate_buyee_service_fee(package_info.item_price_jpy, platform)]
            ELSE package_info
    IN
    Let(extract_package_info(buyee_link, fetched),
        LAMBDA extracted :
            Let(IF extracted.raised
                THEN PackageInfo(manual.price_jpy, manual.price_jpy, manual.weight_kg,
                                 manual.length_cm, manual.width_cm, manual.height_cm, <<>>)
                ELSE extracted.info,
                LAMBDA package_info0 :
                    Let(ApplyManualOverrides(package_info0, manual),
                        LAMBDA package_info1 : WithServiceFee(package_info1))))

\* calculate_landed_cost after the print of the rate: the package_info at the
\* customs computation and the LandedCost returned, computed with the rate
\* self.exchange_rate holds.  fetched is the page fetch's result.
LandedCostRest(exchange_rate, buyee_link, fetched, shipping_method, manual) ==
    Let(PackageInfoFor(buyee_link, fetched, manual),
        LAMBDA package_info :
            Let(estimate_international_shipping(
                    package_info.weight_kg, package_info.length_cm,
                    package_info.width_cm, package_info.height_cm),
                LAMBDA shipping_options :
                    [package_info |-> package_info,
                     landed_cost |-> LandedCostOf(exchange_rate, package_info,
                                                  shipping_options, shipping_method)]))

\* One run of calculate_landed_cost: the value assigned to self.exchange_rate,
\* and, unless that value is not a number and the print of it raised, the
\* package_info and the LandedCost.  answer is the rate source's answer.
LandedCostRun(buyee_link, fetched, answer, shipping_method, manual) ==
    Let(get_exchange_rate(answer),
        LAMBDA rate :
            IF ~IsNumber(rate) THEN [raised |-> TRUE, exchange_rate |-> rate]
            ELSE Let(LandedCostRest(rate, buyee_link, fetched, shipping_method, manual),
                     LAMBDA rest : [raised |-> FALSE, exchange_rate |-> rate,
                                    package_info |-> rest.package_info,
                                    landed_cost |-> rest.landed_cost]))

\* The LandedCost of a run that returns one.
calculate_landed_cost(buyee_link, fetched, answer, shipping_method, manual) ==
    LandedCostRun(buyee_link, fetched, answer, shipping_method, manual).landed_cost
\* ------------------------------------------------------------------ bounds
MaxPrice == 15000        \* item prices of the fee calls: 0..MaxPrice whole JPY
MaxDeclared == 300       \* declared values of the customs calls
MaxWeightSteps == 50     \* weights of the shipping calls, in steps of 50 g
MaxHeight == 16          \* heights of the shipping calls, cm
MaxWords == 2            \* words in an item name of the classifier calls
MaxPackages == 3         \* packages of a consolidation call
MaxLinks == 3            \* links of a batch request
MaxRequests == 2         \* requests served concurrently

\* ------------------------------------------------------------------ inputs
Vocabulary ==
    { <<"B","o","o","t">>, <<"J","A","C","K","E","T">>, <<"j","e","a","n","s">>,
      <<"s","w","e","a","t","s","h","i","r","t">>, <<"p","u","l","l","o","v","e","r">>,
      <<"D","r","e","s","s">>, <<"b","a","g">>, <<"e","a","r","r","i","n","g">>,
      <<"v","i","n","t","a","g","e">>, <<"u30D6","u30FC","u30C4">>,
      <<"J","A","C","u212A","E","T">>, <<"S","H","u0130","R","T">> }

RECURSIVE Texts(_)
\* The texts of at most n vocabulary words, separated by one space.
Texts(n) ==
    IF n = 0 THEN { <<>> }
    ELSE Texts(n - 1) \cup Vocabulary
         \cup { t \o <<" ">> \o w : t \in (Texts(n - 1) \ { <<>> }), w \in Vocabulary }

SeqsUpTo(S, n) == UNION { [1..k -> S] : k \in 0..n }

Package(weight, length, width, height) ==
    PackageInfo(Yen(3000), Yen(3000), weight, length, width, height, <<>>)

NoWords == {}

Links ==
    { Link(TRUE, FALSE, {"rakuma"}),              \* .../rakuma/item/<id>
      Link(FALSE, TRUE, {"yahoo", "auction"}),    \* .../item/yahoo/auction/<id>
      Link(TRUE, FALSE, {"mercari"}),             \* .../mercari/item/<id>
      Link(TRUE, FALSE, NoWords),                 \* .../item/detail/<id>
      Link(FALSE, FALSE, NoWords) }               \* .../package/<id>

Page(name, ld, meta, data, sel_market, sel_general, text, weights, dims) ==
    [name |-> name, ld |-> ld, meta |-> meta, data |-> data, sel_market |-> sel_market,
     sel_general |-> sel_general, text |-> text, weights |-> weights, dims |-> dims]

\* A weight as a page writes it: "300.1 g" is Wt(300, 100, "g").
Wt(whole, thousandths, unit) == [num |-> 1000 * whole + thousandths, unit |-> unit]

\* An amount as a page writes it before the yen character: "15,000" is
\* Written(Yen(15000), TRUE) and "15000" is Written(Yen(15000), FALSE).
Written(amount, grouped) == Amount("", amount, grouped, NoCents, "u5186")

EmptyPage == Page(<<>>, <<>>, 0, <<>>, <<>>, <<>>, <<>>, <<>>, <<>>)

Pages ==
    { EmptyPage,
      \* structured data, and a conflicting larger free-text price
      Page(<<"B","o","o","t">>, << <<Yen(8980)>> >>, 0, <<>>, <<>>, <<>>,
           <<Written(Yen(15000), TRUE)>>, <<>>, <<>>),
      \* meta price, weight "500 g", dimensions 30 x 20 x 15 cm
      Page(<<"J","A","C","K","E","T">>, <<>>, Yen(9500), <<>>, <<>>, <<>>, <<>>,
           <<Wt(500, 0, "g")>>, << <<30, 20, 15>> >>),
      \* free text only: a shipping line and two prices; weight "2 kg"
      Page(<<"v","i","n","t","a","g","e">>, <<>>, 0, <<>>, <<>>, <<>>,
           <<Written(Yen(800), TRUE), Written(Yen(15000), TRUE), Written(Yen(3000), TRUE)>>,
           <<Wt(2, 0, "kg")>>, <<>>),
      \* selector prices only
      Page(<<"b","a","g">>, <<>>, 0, <<>>, <<Yen(50), Yen(12000)>>, <<Yen(4000), Yen(7000)>>,
           <<>>, <<>>, << <<40, 30, 250>>, <<40, 30, 25>> >>),
      \* data-price attribute after an unparsable one
      Page(<<>>, << <<BadNumber, Yen(5000)>> >>, 0, <<BadNumber, Yen(10000)>>, <<>>, <<>>,
           <<Written(Yen(20), TRUE)>>, <<Wt(15, 0, "kg")>>, <<>>),
      \* free text only, every price under 2,000; weight "60 kg", then "300 g"
      Page(<<"T","e","e">>, <<>>, 0, <<>>, <<>>, <<>>,
           <<Written(Yen(800), TRUE), Written(Yen(1500), TRUE)>>,
           <<Wt(60, 0, "kg"), Wt(300, 0, "g")>>, <<>>),
      \* meta and first data-price out of range, a second data-price, a selector
      \* price and a free-text price; weight "5 g"
      Page(<<>>, <<>>, Yen(50), <<Yen(50), Yen(7000)>>, <<Yen(12000)>>, <<>>,
           <<Written(Yen(14000), TRUE)>>, <<Wt(5, 0, "g")>>, <<>>),
      \* two structured-data blocks: offers of 50, 6,000 and 9,000 JPY, then an
      \* offer of 7,500 JPY; dimensions 20 x 15 x 5 cm and no weight
      Page(<<"D","r","e","s","s">>, << <<Yen(50), Yen(6000), Yen(9000)>>, <<Yen(7500)>> >>,
           0, <<>>, <<>>, <<>>, <<>>, <<>>, << <<20, 15, 5>> >>),
      \* meta price; weight "8.002 kg", whose EMS cost is 22,954.50 JPY
      Page(<<"C","o","a","t">>, <<>>, Yen(6400), <<>>, <<>>, <<>>, <<>>,
           <<Wt(8, 2, "kg")>>, <<>>),
      \* meta price 8,980.50 JPY; weight "2000.033 g"
      Page(<<"B","o","o","t">>, <<>>, Yen(8980) + 50, <<>>, <<>>, <<>>, <<>>,
           <<Wt(2000, 33, "g")>>, <<>>),
      \* free text only: the yen sign before "15,000", and "Total $ 25.50"
      Page(<<"B","o","o","t">>, <<>>, 0, <<>>, <<>>, <<>>,
           <<Amount("uA5", Yen(15000), TRUE, NoCents, ""),
             Amount("$", Yen(25), FALSE, 50, "")>>, <<>>, <<>>) }

\* More pages for extract_package_info alone.
ExtractPages ==
    \* the only price above the accepted range: "20000000" before the yen sign
    { Page(<<>>, <<>>, 0, <<>>, <<>>, <<>>, <<Written(Yen(20000000), FALSE)>>, <<>>, <<>>),
      \* the only price has three groups, "12,345,678"; the weight is "50000.1 g"
      Page(<<>>, <<>>, 0, <<>>, <<>>, <<>>, <<Written(Yen(12345678), TRUE)>>,
           <<Wt(50000, 100, "g")>>, <<>>),
      \* the only price is bare digits, "8980"; the weight is "300.1 g"
      Page(<<"b","a","g">>, <<>>, 0, <<>>, <<>>, <<>>, <<Written(Yen(8980), FALSE)>>,
           <<Wt(300, 100, "g")>>, <<>>),
      \* a shipment page writing "$ 25.50" before "3,200" and the yen character
      Page(<<>>, <<>>, 0, <<>>, <<>>, <<>>,
           <<Amount("$", Yen(25), FALSE, 50, ""), Written(Yen(3200), TRUE)>>, <<>>, <<>>),
      \* one writing "JPY 1,234,567" before "$ 1,250.50"
      Page(<<>>, <<>>, 0, <<>>, <<>>, <<>>,
           <<Amount("JPY", Yen(1234567), TRUE, NoCents, ""),
             Amount("$", Yen(1250), TRUE, 50, "")>>, <<>>, <<>>) }
    \* pages whose only price is written with a mark other than the yen
    \* character: the amount 15,000 or 3,200, with separators or bare, with
    \* ".50" or without, after the yen sign, after JPY or jpy, after the dollar
    \* sign, before YEN or yen, or with no mark
    \cup { Page(<<"B","o","o","t">>, <<>>, 0, <<>>, <<>>, <<>>,
                <<Amount(before, amount, grouped, cents, after)>>, <<>>, <<>>) :
           before \in {"", "uA5", "JPY", "jpy", "$"}, amount \in {Yen(15000), Yen(3200)},
           grouped \in BOOLEAN, cents \in {NoCents, 50},
           after \in {"", "u5186", "YEN", "yen"} }

Fetches == { [ok |-> FALSE, page |-> EmptyPage] } \cup { [ok |-> TRUE, page |-> p] : p \in Pages }

Methods == Carriers \cup {"Surface"}

\* The pages a batch link may hold: a shipment page with 3,200 JPY, "500 g"
\* and 20 x 10 x 3 cm, and a Rakuma item with 6,400 JPY, "8.002 kg" and no
\* dimensions.
BatchPages ==
    << Page(<<>>, <<>>, 0, <<>>, <<>>, <<>>, <<Written(Yen(3200), TRUE)>>,
            <<Wt(500, 0, "g")>>, << <<20, 10, 3>> >>),
       Page(<<"C","o","a","t">>, <<>>, Yen(6400), <<>>, <<>>, <<>>, <<>>,
            <<Wt(8, 2, "kg")>>, <<>>) >>

\* The elements of the request's links: a blank string, a JSON value that is
\* not a string (null, a number), and two links, each with the page its first GET
\* finds when that succeeds.
BatchLinks ==
    LET BatchLink(buyee_link, page) ==
            [string |-> TRUE, blank |-> FALSE, link |-> buyee_link, page |-> page]
    IN
    { [string |-> TRUE, blank |-> TRUE, link |-> Link(FALSE, FALSE, NoWords),
       page |-> EmptyPage],
      [string |-> FALSE, blank |-> FALSE, link |-> Link(FALSE, FALSE, NoWords),
       page |-> EmptyPage],
      BatchLink(Link(FALSE, FALSE, NoWords), BatchPages[1]),
      BatchLink(Link(TRUE, FALSE, {"rakuma"}), BatchPages[2]) }

BatchRateAnswers ==
    { RateError("ConnectionError"), RateResponse(200, TRUE, TRUE, 66),
      RateResponse(200, TRUE, TRUE, None) }

Manual(price_jpy, weight_kg, length_cm, width_cm, height_cm) ==
    [price_jpy |-> price_jpy, weight_kg |-> weight_kg, length_cm |-> length_cm,
     width_cm |-> width_cm, height_cm |-> height_cm]

\* ------------------------------------------------------------------- state
VARIABLES
    exchange_rate,        \* self.exchange_rate of the calculator in use
    call,                 \* the last call of a calculator method: op, args, ret
    pc,                   \* calculate_batch: "idle", or the step the handler waits at
    request,              \* calculate_batch: the request's JSON
    next_link,            \* calculate_batch: the position of the loop in links
    results,              \* calculate_batch: results
    package_infos,        \* calculate_batch: package_infos
    loop_package_info,    \* calculate_batch: package_info of the link in the loop
    batch_exchange_rate,  \* calculate_batch: its local exchange_rate
    consolidation,        \* calculate_batch: the locals of the consolidated branch
    response,             \* calculate_batch: the JSON response and its status
    calculate_locals,     \* calculate: the request's fields and landed_cost
    calculate_response,   \* calculate: the JSON response and its status
    page_fetches,         \* session.get calls made for a link's page so far
    rate_fetches,         \* requests.get calls made to the rate source so far
    history_rows,         \* CalculationHistory rows given to db.session.add so far
    threads,              \* concurrent requests: each handler thread's locals and position
    calculators           \* concurrent requests: the calculator objects' exchange_rate

batch_vars == <<pc, request, next_link, results, package_infos, loop_package_info,
                batch_exchange_rate, consolidation, response>>

single_vars == <<calculate_locals, calculate_response>>

effect_vars == <<page_fetches, rate_fetches, history_rows>>

conc_vars == <<threads, calculators>>

vars == <<exchange_rate, call, batch_vars, single_vars, effect_vars, conc_vars>>

\* at: "returned", "raised", or the step a call in progress waits at.
NoCall == [op |-> "none", at |-> "returned", args |-> <<>>, ret |-> 0]

\* body: whether the request's JSON body is an object or null.
NoRequest == [body |-> "object", links |-> <<>>, shipping_method |-> "",
              consolidated |-> FALSE,
              destination_address |-> FALSE, destination_zip |-> FALSE]

NoPackageInfo == [extracted |-> FALSE]

NoResponse == [status |-> 0]

\* body: "null" or "object"; link: "string", "blank" (empty after strip()) or
\* "other" (a JSON value that is not a string).
NoLocals == [body |-> "none", link |-> "none", at |-> "none"]

Requests == 1..MaxRequests

Init ==
    /\ exchange_rate = None
    /\ call = NoCall
    /\ pc = "idle"
    /\ request = NoRequest
    /\ next_link = 0
    /\ results = <<>>
    /\ package_infos = <<>>
    /\ loop_package_info = NoPackageInfo
    /\ batch_exchange_rate = None
    /\ consolidation = [packages |-> 0]
    /\ response = NoResponse
    /\ calculate_locals = NoLocals
    /\ calculate_response = NoResponse
    /\ page_fetches = 0
    /\ rate_fetches = 0
    /\ history_rows = 0
    /\ threads = [r \in Requests |-> [pc |-> "arrive"]]
    /\ calculators = [c \in Requests |-> [constructed |-> FALSE]]

Returned(op, args, ret) == call' = [op |-> op, at |-> "returned", args |-> args, ret |-> ret]

\* Nothing has been called or requested yet: a method is called once, on the
\* calculator as constructed, and the handler serves one request.
Idle ==
    /\ call = NoCall /\ pc = "idle" /\ response = NoResponse
    /\ calculate_locals = NoLocals /\ calculate_response = NoResponse

\* ------------------------------------------------- calculator method calls
CallDetectCategory ==
    /\ Idle
    /\ \E item_name \in Texts(MaxWords), item_description \in { <<>>, <<"T","e","e">>, <<"u6642","u8A08">>,
                                <<"l","a","p","t","o","p">> } :
        /\ Returned("detect_clothing_category", <<item_name, item_description>>,
                    detect_clothing_category(item_name, item_description))
        /\ UNCHANGED <<exchange_rate, batch_vars, single_vars, effect_vars>>
    /\ UNCHANGED conc_vars

CallServiceFee ==
    /\ Idle
    /\ \E p \in 0..MaxPrice :
        /\ Returned("calculate_buyee_service_fee", <<Yen(p)>>,
                    calculate_buyee_service_fee(Yen(p), "general"))
        /\ UNCHANGED <<exchange_rate, batch_vars, single_vars, effect_vars>>
    /\ UNCHANGED conc_vars

CallCustoms ==
    /\ Idle
    \* declared values in USD: multiples of 0.0001 and of 0.000001, whole dollars,
    \* and 8,980.50 JPY at the rate 0.0067
    /\ \E v \in { Decimal(k, 4) : k \in 0..MaxDeclared }
                   \cup { Decimal(k, 6) : k \in 0..MaxDeclared }
                   \cup { Usd(k) : k \in 0..MaxDeclared } \cup { Decimal(6016935, 5) } :
        /\ Returned("calculate_us_customs", <<v>>, calculate_us_customs(v))
        /\ UNCHANGED <<exchange_rate, batch_vars, single_vars, effect_vars>>
    /\ UNCHANGED conc_vars

CallShipping ==
    /\ Idle
    \* weights on and off the breaks: a multiple of 50 g, the float below it, the
    \* float above it, and 1 mg more
    /\ \E weight \in { w \in { Grams(50) * k + d : k \in 0..MaxWeightSteps,
                                                     d \in {-1, 0, 1, 4} } : w >= 0 },
          length \in {0, 30}, width \in {20, 25}, height \in 0..MaxHeight :
        /\ Returned("estimate_international_shipping", <<weight, length, width, height>>,
                    estimate_international_shipping(weight, length, width, height))
        /\ UNCHANGED <<exchange_rate, batch_vars, single_vars, effect_vars>>
    /\ UNCHANGED conc_vars

CallConsolidated ==
    /\ Idle
    \* packages with known weight and dimensions, and with some or all unknown (0)
    /\ \E packages \in SeqsUpTo(
              { Package(Grams(400), 30, 20, 5), Package(Grams(600), 35, 30, 8),
                Package(Grams(300), 25, 20, 10), Package(0, 40, 30, 5),
                Package(0, 0, 0, 0), Package(Grams(1200), 0, 0, 0),
                Package(Grams(500), 0, 0, 0), Package(Grams(200), 25, 0, 3),
                Package(Grams(700), 0, 0, 0), Package(Grams(100), 0, 0, 0) },
              MaxPackages) :
        /\ \E aggregate \in calculate_consolidated_shipping(packages) :
                Returned("calculate_consolidated_shipping", <<packages>>, aggregate)
        /\ UNCHANGED <<exchange_rate, batch_vars, single_vars, effect_vars>>
    /\ UNCHANGED conc_vars

\* extract_package_info: ret.raised, or ret.info the PackageInfo returned.
CallExtract ==
    /\ Idle
    /\ \E buyee_link \in Links,
          fetched \in Fetches \cup { [ok |-> TRUE, page |-> p] :
                                         p \in ExtractPages } :
        /\ Returned("extract_package_info", <<buyee_link, fetched>>,
                    extract_package_info(buyee_link, fetched))
        /\ page_fetches' = page_fetches + 1
        /\ UNCHANGED <<exchange_rate, batch_vars, single_vars, rate_fetches, history_rows>>
    /\ UNCHANGED conc_vars

\* calculate_landed_cost on a newly constructed calculator, up to the print of
\* the rate: the rate source answers, self.exchange_rate is assigned, and a rate
\* that is not a number raises at the format spec `:.6f`.
LandedCostGetRate ==
    /\ Idle
    /\ \E buyee_link \in Links,
          answer \in
            { RateError("ConnectionError"), RateError("Timeout"),
              RateResponse(500, TRUE, TRUE, 70),       \* an error status, whatever the body
              RateResponse(200, FALSE, FALSE, NoKey),  \* not JSON
              RateResponse(200, TRUE, FALSE, NoKey),   \* no `rates`
              RateResponse(200, TRUE, TRUE, NoKey),    \* no `USD` in `rates`
              RateResponse(200, TRUE, TRUE, None),     \* {"rates": {"USD": null}}
              RateResponse(200, TRUE, TRUE, -3),       \* {"rates": {"USD": "0.0065"}}, a string
              RateResponse(200, TRUE, TRUE, 65),
              RateResponse(200, TRUE, TRUE, 70) },
          shipping_method \in Methods,
          manual \in
            { Manual(0, 0, 0, 0, 0), Manual(Yen(12000), 0, 0, 0, 0),
              Manual(0, Grams(1800), 0, 0, 0), Manual(Yen(9999), Grams(700), 50, 40, 30) } :
       \E rate \in { get_exchange_rate(answer) } :
            /\ exchange_rate' = rate
            /\ call' = [op |-> "calculate_landed_cost",
                        at |-> IF IsNumber(rate) THEN "extract" ELSE "raised",
                        buyee_link |-> buyee_link, answer |-> answer,
                        shipping_method |-> shipping_method, manual |-> manual]
            /\ rate_fetches' = rate_fetches + 1
            /\ UNCHANGED <<batch_vars, single_vars, page_fetches, history_rows>>
    /\ UNCHANGED conc_vars

\* The rest of calculate_landed_cost: the page fetch answers, and the LandedCost
\* is computed with the rate self.exchange_rate holds.
LandedCostExtract ==
    /\ call.op = "calculate_landed_cost"
    /\ call.at = "extract"
    /\ \E fetched \in Fetches :
       \E run \in { LandedCostRest(exchange_rate, call.buyee_link, fetched,
                                   call.shipping_method, call.manual) } :
            /\ call' = [op |-> "calculate_landed_cost", at |-> "returned",
                        args |-> <<call.buyee_link, fetched, call.answer,
                                   call.shipping_method, call.manual>>,
                        ret |-> run.landed_cost,
                        package_info |-> run.package_info]
            /\ page_fetches' = page_fetches + 1
            /\ UNCHANGED <<exchange_rate, batch_vars, single_vars, rate_fetches, history_rows>>
    /\ UNCHANGED conc_vars

\* ----------------------------------------------------------- calculate_batch
\* round(x, 2) of a USD amount.  The float x is not the exact amount, so a
\* value midway between two cents may go either way.
Round2(x) == { DecMul(r, Decimal(1, 2)) : r \in RoundJpy(DecMul(x, Usd(100))) }

\* The result_item dicts of a successful link, one per way the roundings fall.
ResultItems(link, package_info, shipping_method, rate, landed_cost) ==
    [success : {TRUE},
     link : {link},
     item_name : {package_info.item_name},
     shipping_method : {shipping_method},
     exchange_rate : {rate},
     item_price_jpy : {RoundJpyExact(landed_cost.item_price_jpy)},
     item_price_usd : Round2(landed_cost.item_price_usd),
     domestic_shipping_jpy : {RoundJpyExact(landed_cost.domestic_shipping_jpy)},
     domestic_shipping_usd : Round2(landed_cost.domestic_shipping_usd),
     buyee_service_fee_jpy : {RoundJpyExact(landed_cost.buyee_service_fee_jpy)},
     buyee_service_fee_usd : Round2(landed_cost.buyee_service_fee_usd),
     international_shipping_jpy : RoundJpy(landed_cost.international_shipping_jpy),
     international_shipping_usd : Round2(landed_cost.international_shipping_usd),
     us_customs_duty_usd : Round2(landed_cost.us_customs_duty_usd),
     us_customs_tax_usd : Round2(landed_cost.us_customs_tax_usd),
     total_jpy : RoundJpy(landed_cost.total_jpy),
     total_usd : Round2(landed_cost.total_usd)]

\* The entry of a link whose processing raised; error stands for str(e) and
\* names the exception's class.
FailedItem(link, error) == [success |-> FALSE, link |-> link, error |-> error]

\* The exception the format spec `:.6f` raises on a rate that is not a number.
FormatError(rate) == IF rate = None THEN "TypeError" ELSE "ValueError"

Fetch(ok, page) == [ok |-> ok, page |-> IF ok THEN page ELSE EmptyPage]

\* ---------------------------------------------------------------- calculate
\* The result dicts of the single-link handler, one per way the roundings fall.
CalculateResults(buyee_link, item_name, shipping_method, landed_cost) ==
    ResultItems(buyee_link, [item_name |-> item_name], shipping_method,
                landed_cost.exchange_rate, landed_cost)

\* POST /calculate, from the arrival of the request to the call of
\* calculate_landed_cost on a new calculator: the fields are read and the
\* request validated.  A body that is JSON null makes request.json None and
\* data.get raises; a link that is not a string has no strip(), which raises
\* before any field is validated: in both cases the handler answers 500.
CalculateBegin ==
    /\ Idle
    /\ \E body \in {"null", "object"}, link \in {"string", "blank", "other"},
          buyee_link \in Links, shipping_method \in Methods,
          destination_address \in BOOLEAN, destination_zip \in BOOLEAN,
          save_to_db \in BOOLEAN :
        IF body = "null"
        THEN /\ calculate_response' = [status |-> 500, success |-> FALSE,
                                       error |-> "AttributeError"]
             /\ calculate_locals' = [body |-> body, link |-> "none", at |-> "done"]
        ELSE IF link = "other"
        THEN /\ calculate_response' = [status |-> 500, success |-> FALSE,
                                       error |-> "AttributeError"]
             /\ calculate_locals' = [body |-> body, link |-> link, at |-> "done",
                                     destination_address |-> destination_address,
                                     destination_zip |-> destination_zip]
        ELSE IF link = "blank"
        THEN /\ calculate_response' = [status |-> 400, error |-> "No link provided"]
             /\ calculate_locals' = [body |-> body, link |-> link, at |-> "done",
                                     destination_address |-> destination_address,
                                     destination_zip |-> destination_zip]
        ELSE IF ~destination_address \/ ~destination_zip
        THEN /\ calculate_response' =
                    [status |-> 400,
                     error |-> "Destination address and ZIP code are required"]
             /\ calculate_locals' = [body |-> body, link |-> link, at |-> "done",
                                     destination_address |-> destination_address,
                                     destination_zip |-> destination_zip]
        ELSE /\ calculate_locals' = [body |-> body, link |-> link, at |-> "rate",
                                     buyee_link |-> buyee_link,
                                     shipping_method |-> shipping_method,
                                     destination_address |-> TRUE, destination_zip |-> TRUE,
                                     save_to_db |-> save_to_db]
             /\ UNCHANGED calculate_response
    /\ UNCHANGED <<exchange_rate, call, batch_vars, effect_vars>>
    /\ UNCHANGED conc_vars

\* calculate_landed_cost up to the print of the rate: the rate source answers.
\* A rate that is not a number raises, and the handler answers 500.
CalculateGetRate ==
    /\ calculate_locals.at = "rate"
    /\ \E answer \in BatchRateAnswers :
       \E rate \in { get_exchange_rate(answer) } :
            /\ exchange_rate' = rate
            /\ rate_fetches' = rate_fetches + 1
            /\ IF IsNumber(rate)
               THEN /\ calculate_locals' =
                           [body |-> "object", link |-> "string", at |-> "extract",
                            buyee_link |-> calculate_locals.buyee_link,
                            shipping_method |-> calculate_locals.shipping_method,
                            destination_address |-> TRUE, destination_zip |-> TRUE,
                            save_to_db |-> calculate_locals.save_to_db,
                            answer |-> answer]
                    /\ UNCHANGED calculate_response
               ELSE /\ calculate_locals' = [calculate_locals EXCEPT !.at = "done"]
                    /\ calculate_response' =
                           [status |-> 500, success |-> FALSE, error |-> FormatError(rate)]
    /\ UNCHANGED <<call, batch_vars, page_fetches, history_rows>>
    /\ UNCHANGED conc_vars

\* The rest of calculate_landed_cost: the page fetch answers.
CalculateExtract ==
    /\ calculate_locals.at = "extract"
    /\ \E fetched \in Fetches :
       \E run \in { LandedCostRest(exchange_rate, calculate_locals.buyee_link, fetched,
                                   calculate_locals.shipping_method, Manual(0, 0, 0, 0, 0)) } :
            /\ calculate_locals' =
                   [body |-> "object", link |-> "string", at |-> "name",
                    buyee_link |-> calculate_locals.buyee_link,
                    shipping_method |-> calculate_locals.shipping_method,
                    destination_address |-> TRUE, destination_zip |-> TRUE,
                    save_to_db |-> calculate_locals.save_to_db,
                    answer |-> calculate_locals.answer,
                    fetched |-> fetched,
                    package_info |-> run.package_info,
                    landed_cost |-> run.landed_cost]
            /\ page_fetches' = page_fetches + 1
    /\ UNCHANGED <<exchange_rate, call, batch_vars, calculate_response, rate_fetches,
                   history_rows>>
    /\ UNCHANGED conc_vars

\* The second extraction, for the item name: the page is fetched again and
\* answers whatever it answers now, a failure leaving the name empty.  The
\* result dict is built, one per way the roundings fall.
CalculateName ==
    /\ calculate_locals.at = "name"
    /\ \E again \in Fetches :
       \E named \in { extract_package_info(calculate_locals.buyee_link, again) } :
       \E result \in CalculateResults(calculate_locals.buyee_link,
                        IF named.raised THEN <<>> ELSE named.info.item_name,
                        calculate_locals.shipping_method, calculate_locals.landed_cost) :
            calculate_locals' =
                [body |-> "object", link |-> "string",
                 at |-> IF calculate_locals.save_to_db THEN "add" ELSE "respond",
                 buyee_link |-> calculate_locals.buyee_link,
                 shipping_method |-> calculate_locals.shipping_method,
                 destination_address |-> TRUE, destination_zip |-> TRUE,
                 save_to_db |-> calculate_locals.save_to_db,
                 answer |-> calculate_locals.answer,
                 fetched |-> calculate_locals.fetched,
                 package_info |-> calculate_locals.package_info,
                 landed_cost |-> calculate_locals.landed_cost,
                 result |-> result]
    /\ page_fetches' = page_fetches + 1
    /\ UNCHANGED <<exchange_rate, call, batch_vars, calculate_response, rate_fetches,
                   history_rows>>
    /\ UNCHANGED conc_vars

\* `if save_to_db:` db.session.add(calc_history)
CalculateAdd ==
    /\ calculate_locals.at = "add"
    /\ calculate_locals' = [calculate_locals EXCEPT !.at = "commit"]
    /\ history_rows' = history_rows + 1
    /\ UNCHANGED <<exchange_rate, call, batch_vars, calculate_response, page_fetches,
                   rate_fetches>>
    /\ UNCHANGED conc_vars

\* db.session.commit().  It returns or it raises; a raise is caught and printed,
\* and the handler goes on either way (the row's id in the response is left
\* out).
CalculateCommit ==
    /\ calculate_locals.at = "commit"
    /\ calculate_locals' = [calculate_locals EXCEPT !.at = "respond"]
    /\ UNCHANGED <<exchange_rate, call, batch_vars, calculate_response, effect_vars>>
    /\ UNCHANGED conc_vars

\* return jsonify(result)
CalculateRespond ==
    /\ calculate_locals.at = "respond"
    /\ calculate_locals' = [calculate_locals EXCEPT !.at = "done"]
    /\ calculate_response' = [status |-> 200, result |-> calculate_locals.result]
    /\ UNCHANGED <<exchange_rate, call, batch_vars, effect_vars>>
    /\ UNCHANGED conc_vars

\* The request arrives and is validated; an accepted one goes on to construct
\* the calculator and ask for the exchange rate.  A body that is JSON null
\* makes request.json None: data.get raises, and the handler answers 500.
BatchBegin ==
    /\ Idle
    /\ \E body \in {"null", "object"},
          links \in SeqsUpTo(BatchLinks, MaxLinks), shipping_method \in {"FedEx Air", "Surface"},
          consolidated \in BOOLEAN, destination_address \in BOOLEAN,
          destination_zip \in BOOLEAN :
        /\ request' = IF body = "null" THEN [NoRequest EXCEPT !.body = "null"]
                      ELSE [body |-> body, links |-> links,
                            shipping_method |-> shipping_method,
                            consolidated |-> consolidated,
                            destination_address |-> destination_address,
                            destination_zip |-> destination_zip]
        /\ IF body = "null"
           THEN /\ response' = [status |-> 500, success |-> FALSE, error |-> "AttributeError"]
                /\ UNCHANGED pc
           ELSE IF ~destination_address \/ ~destination_zip
           THEN /\ response' = [status |-> 400,
                                error |-> "Destination address and ZIP code are required"]
                /\ UNCHANGED pc
           ELSE IF links = <<>>
           THEN /\ response' = [status |-> 400, error |-> "No links provided"]
                /\ UNCHANGED pc
           ELSE /\ pc' = "rate"
                /\ UNCHANGED response
    /\ UNCHANGED <<single_vars, exchange_rate, call, next_link, results, package_infos,
                   loop_package_info, batch_exchange_rate, consolidation, effect_vars>>
    /\ UNCHANGED conc_vars

\* exchange_rate = calculator.get_exchange_rate(): the rate source answers, and
\* the loop over the links begins.
BatchGetRate ==
    /\ pc = "rate"
    /\ \E answer \in BatchRateAnswers :
        batch_exchange_rate' = get_exchange_rate(answer)
    /\ rate_fetches' = rate_fetches + 1
    /\ pc' = "loop"
    /\ next_link' = 1
    /\ UNCHANGED <<single_vars, exchange_rate, call, request, results, package_infos,
                   loop_package_info, consolidation, response, page_fetches, history_rows>>
    /\ UNCHANGED conc_vars

\* `link = link.strip()` on an element that is not a string raises outside
\* the try of the loop body: the handler's except answers 500, and the entries
\* made so far are not sent.
BatchLinkNotString ==
    /\ pc = "loop"
    /\ next_link <= Len(request.links)
    /\ ~request.links[next_link].string
    /\ pc' = "idle"
    /\ response' = [status |-> 500, success |-> FALSE, error |-> "AttributeError"]
    /\ UNCHANGED <<single_vars, exchange_rate, call, request, next_link, results,
                   package_infos, loop_package_info, batch_exchange_rate, consolidation,
                   effect_vars>>
    /\ UNCHANGED conc_vars

\* `link = link.strip()` and `if not link: continue`
BatchSkipBlank ==
    /\ pc = "loop"
    /\ next_link <= Len(request.links)
    /\ request.links[next_link].string
    /\ request.links[next_link].blank
    /\ next_link' = next_link + 1
    /\ UNCHANGED <<single_vars, exchange_rate, call, pc, request, results, package_infos,
                   loop_package_info, batch_exchange_rate, consolidation, response, effect_vars>>
    /\ UNCHANGED conc_vars

\* One link whose extraction raises (the fetch of its page fails): the failure
\* entry, error being str(e) of the exception.
BatchLinkFails ==
    /\ pc = "loop"
    /\ next_link <= Len(request.links)
    /\ request.links[next_link].string
    /\ ~request.links[next_link].blank
    /\ results' = Append(results, FailedItem(request.links[next_link].link, "RequestException"))
    /\ next_link' = next_link + 1
    /\ page_fetches' = page_fetches + 1
    /\ UNCHANGED <<single_vars, exchange_rate, call, pc, request, package_infos, loop_package_info,
                   batch_exchange_rate, consolidation, response, rate_fetches, history_rows>>
    /\ UNCHANGED conc_vars

\* One link whose extraction succeeds: package_info is the PackageInfo of its
\* page, and calculate_landed_cost is called.
BatchLinkExtracted ==
    /\ pc = "loop"
    /\ next_link <= Len(request.links)
    /\ request.links[next_link].string
    /\ ~request.links[next_link].blank
    /\ LET entry == request.links[next_link]
       IN  loop_package_info' = extract_package_info(entry.link, Fetch(TRUE, entry.page)).info
    /\ pc' = "landed_cost"
    /\ page_fetches' = page_fetches + 1
    /\ UNCHANGED <<single_vars, exchange_rate, call, request, next_link, results, package_infos,
                   batch_exchange_rate, consolidation, response, rate_fetches, history_rows>>
    /\ UNCHANGED conc_vars

\* calculate_landed_cost up to the print of the rate: the rate source is asked
\* again and self.exchange_rate assigned.  A rate that is not a number raises:
\* the link gets a failure entry and the loop goes on.
BatchLinkGetRate ==
    /\ pc = "landed_cost"
    /\ \E answer \in BatchRateAnswers :
       \E rate \in { get_exchange_rate(answer) } :
            /\ exchange_rate' = rate
            /\ IF IsNumber(rate)
               THEN /\ pc' = "extract"
                    /\ UNCHANGED <<results, next_link, loop_package_info>>
               ELSE /\ pc' = "loop"
                    /\ results' = Append(results, FailedItem(request.links[next_link].link,
                                                             FormatError(rate)))
                    /\ next_link' = next_link + 1
                    /\ loop_package_info' = NoPackageInfo
    /\ rate_fetches' = rate_fetches + 1
    /\ UNCHANGED <<single_vars, call, request, package_infos, batch_exchange_rate,
                   consolidation, response, page_fetches, history_rows>>
    /\ UNCHANGED conc_vars

\* The rest of calculate_landed_cost and of the loop body: the page is fetched
\* again and answers whatever it answers now (`again`), the entry is appended
\* to package_infos, the result_item to results, and the history row is added.
BatchLinkSucceeds ==
    /\ pc = "extract"
    /\ \E again \in
            \* the second GET of the page: a failure, or either page (what a
            \* link holds may change between two GETs)
            { [ok |-> FALSE, page |-> EmptyPage] }
                \cup { [ok |-> TRUE, page |-> BatchPages[i]] : i \in 1..Len(BatchPages) } :
        LET entry == request.links[next_link]
        IN  \E landed_cost \in
                { LandedCostRest(exchange_rate, entry.link, again,
                                 request.shipping_method, Manual(0, 0, 0, 0, 0)).landed_cost } :
                /\ package_infos' = Append(package_infos,
                        [info |-> loop_package_info, link |-> entry.link,
                         landed_cost |-> landed_cost])
                /\ \E result_item \in ResultItems(entry.link, loop_package_info,
                        request.shipping_method, batch_exchange_rate, landed_cost) :
                    results' = Append(results, result_item)
    /\ pc' = "loop"
    /\ next_link' = next_link + 1
    /\ loop_package_info' = NoPackageInfo
    /\ page_fetches' = page_fetches + 1
    /\ history_rows' = history_rows + 1
    /\ UNCHANGED <<single_vars, exchange_rate, call, request, batch_exchange_rate,
                   consolidation, response, rate_fetches>>
    /\ UNCHANGED conc_vars

\* sum(f(x) for x in s)
SumOf(s, F(_)) == DecSum([i \in 1..Len(s) |-> F(s[i])])

Successes == SelectSeq(results, LAMBDA r : r.success)

\* `round(x, 2) if x else 0.0`
Round2OrZero(x) == IF x = Usd(0) THEN {Usd(0)} ELSE Round2(x)

\* ConsolidationFee charged for every package.
ConsolidationFee_every_package(package_info_list) == Yen(500) * Len(package_info_list)

\* consolidation_fee_jpy = 500 * (len(package_info_list) - 1), in 1/100 JPY
ConsolidationFee(package_info_list) == Yen(500) * (Len(package_info_list) - 1)

\* ConsolidateAt with every package's own international shipping line kept in
\* the consolidated total.
ConsolidateAt_keeps_package_quotes(package_info_list, aggregate) ==
    LET shipping_options == estimate_international_shipping(
            aggregate[1], aggregate[2], aggregate[3], aggregate[4])
        consolidated_shipping ==
            IF request.shipping_method \in DOMAIN shipping_options
            THEN shipping_options[request.shipping_method]
            ELSE shipping_options["EMS"]
        consolidation_fee_jpy == ConsolidationFee(package_info_list)
        consolidation_fee_usd == DecMul(Jpy(consolidation_fee_jpy), Rate(batch_exchange_rate))
        total_item_price_usd == SumOf(package_infos, LAMBDA p : p.landed_cost.item_price_usd)
        total_domestic_shipping_usd ==
            SumOf(package_infos, LAMBDA p : p.landed_cost.domestic_shipping_usd)
        total_buyee_service_fee_usd ==
            SumOf(package_infos, LAMBDA p : p.landed_cost.buyee_service_fee_usd)
        consolidated_international_shipping_usd ==
            DecMul(consolidated_shipping.cost_jpy, Rate(batch_exchange_rate))
        customs == calculate_us_customs(total_item_price_usd)
        individual_total == SumOf(Successes, LAMBDA r : r.total_usd)
        consolidated_total ==
            DecSum(<<total_item_price_usd, total_domestic_shipping_usd,
                     total_buyee_service_fee_usd, consolidation_fee_usd,
                     consolidated_international_shipping_usd,
                     SumOf(package_infos, LAMBDA p : p.landed_cost.international_shipping_usd),
                     customs[1], customs[2]>>)
    IN  [packages |-> Len(package_info_list),
         aggregate |-> aggregate,
         consolidated_shipping |-> consolidated_shipping,
         consolidation_fee_jpy |-> consolidation_fee_jpy,
         consolidation_fee_usd |-> consolidation_fee_usd,
         consolidated_international_shipping_usd |-> consolidated_international_shipping_usd,
         consolidated_total |-> consolidated_total,
         individual_total |-> individual_total,
         savings |-> DecSub(individual_total, consolidated_total)]

\* The locals of the consolidated branch, given the aggregate
\* calculate_consolidated_shipping returned.
ConsolidateAt(package_info_list, aggregate) ==
    LET shipping_options == estimate_international_shipping(
            aggregate[1], aggregate[2], aggregate[3], aggregate[4])
        consolidated_shipping ==
            IF request.shipping_method \in DOMAIN shipping_options
            THEN shipping_options[request.shipping_method]
            ELSE shipping_options["EMS"]
        consolidation_fee_jpy == ConsolidationFee(package_info_list)
        consolidation_fee_usd == DecMul(Jpy(consolidation_fee_jpy), Rate(batch_exchange_rate))
        total_item_price_usd == SumOf(package_infos, LAMBDA p : p.landed_cost.item_price_usd)
        total_domestic_shipping_usd ==
            SumOf(package_infos, LAMBDA p : p.landed_cost.domestic_shipping_usd)
        total_buyee_service_fee_usd ==
            SumOf(package_infos, LAMBDA p : p.landed_cost.buyee_service_fee_usd)
        consolidated_international_shipping_usd ==
            DecMul(consolidated_shipping.cost_jpy, Rate(batch_exchange_rate))
        customs == calculate_us_customs(total_item_price_usd)
        individual_total == SumOf(Successes, LAMBDA r : r.total_usd)
        consolidated_total ==
            DecSum(<<total_item_price_usd, total_domestic_shipping_usd,
                     total_buyee_service_fee_usd, consolidation_fee_usd,
                     consolidated_international_shipping_usd, customs[1], customs[2]>>)
    IN  [packages |-> Len(package_info_list),
         aggregate |-> aggregate,
         consolidated_shipping |-> consolidated_shipping,
         consolidation_fee_jpy |-> consolidation_fee_jpy,
         consolidation_fee_usd |-> consolidation_fee_usd,
         consolidated_international_shipping_usd |-> consolidated_international_shipping_usd,
         consolidated_total |-> consolidated_total,
         individual_total |-> individual_total,
         savings |-> DecSub(individual_total, consolidated_total)]

\* After the loop: the consolidated response when asked for and more than one
\* package was extracted, the individual response otherwise (its total_all is a
\* sum of whole cents, which round(x, 2) leaves as it is).  In the consolidated
\* branch an exchange_rate that is not a number raises in the conversions to
\* USD, and the handler answers 500.
BatchRespond ==
    /\ pc = "loop"
    /\ next_link > Len(request.links)
    /\ pc' = "idle"
    /\ IF request.consolidated /\ Len(package_infos) > 1 /\ ~IsNumber(batch_exchange_rate)
       THEN /\ response' = [status |-> 500, success |-> FALSE, error |-> "TypeError"]
            /\ UNCHANGED consolidation
       ELSE IF request.consolidated /\ Len(package_infos) > 1
       THEN \E c \in
                \* the locals of the branch, one record per value the float sum
                \* of the weights may take
                LET package_info_list ==
                        [i \in 1..Len(package_infos) |-> package_infos[i].info]
                IN  { ConsolidateAt(package_info_list, aggregate) :
                      aggregate \in calculate_consolidated_shipping(package_info_list) } :
            /\ consolidation' = c
            /\ \E consolidated_total \in Round2OrZero(c.consolidated_total),
                  individual_total \in Round2OrZero(c.individual_total),
                  savings \in Round2OrZero(c.savings),
                  consolidation_fee_usd \in Round2OrZero(c.consolidation_fee_usd),
                  consolidated_shipping_usd \in
                      Round2OrZero(c.consolidated_international_shipping_usd) :
                 response' = [status |-> 200, success |-> TRUE, consolidated |-> TRUE,
                              consolidated_total |-> consolidated_total,
                              individual_total |-> individual_total,
                              savings |-> savings,
                              consolidation_fee_usd |-> consolidation_fee_usd,
                              consolidated_shipping_usd |-> consolidated_shipping_usd,
                              total_all |-> consolidated_total,
                              count |-> Len(results),
                              success_count |-> Len(Successes)]
       ELSE /\ response' = [status |-> 200, success |-> TRUE, consolidated |-> FALSE,
                            total_all |-> SumOf(Successes, LAMBDA r : r.total_usd),
                            count |-> Len(results), success_count |-> Len(Successes)]
            /\ UNCHANGED consolidation
    /\ UNCHANGED <<single_vars, exchange_rate, call, request, next_link, results, package_infos,
                   loop_package_info, batch_exchange_rate, effect_vars>>
    /\ UNCHANGED conc_vars

\* ------------------------------------------------------ concurrent requests
\* Two or more /calculate requests, each served by its own thread from the
\* construction of its calculator to its response.

\* One calculator shared by every request.
CalculatorOf_shared(r) == 1

\* The calculator a request uses: the one its handler constructs for it.
CalculatorOf(r) == r

\* The page the concurrent requests ask for.
ConcPage ==
    Page(<<"B","o","o","t">>, << <<Yen(8980)>> >>, 0, <<>>, <<>>, <<>>,
         <<Written(Yen(15000), TRUE)>>, <<>>, <<>>)

\* calculator = BuyeeLandedCostCalculator(destination_address, destination_zip),
\* for a request that passed the validation.  input: the request's link, method
\* and save_to_db, and what the rate source and the first page fetch answer it.
ConcConstruct(r) ==
    /\ threads[r].pc = "arrive"
    /\ \E input \in
          [buyee_link : { Link(TRUE, FALSE, NoWords), Link(FALSE, FALSE, NoWords) },
           fetched : { Fetch(FALSE, EmptyPage), Fetch(TRUE, ConcPage) },
           answer : { RateError("Timeout"), RateResponse(200, TRUE, TRUE, 70),
                      RateResponse(200, TRUE, TRUE, None) },
           shipping_method : {"EMS"},
           save_to_db : BOOLEAN] :
        threads' = [threads EXCEPT ![r] = [pc |-> "rate", input |-> input]]
    /\ calculators' = [calculators EXCEPT ![CalculatorOf(r)] =
                           [constructed |-> TRUE, exchange_rate |-> None]]
    /\ UNCHANGED <<exchange_rate, call, batch_vars, single_vars, effect_vars>>

\* self.exchange_rate = self.get_exchange_rate(): the GET of the rate source,
\* and the print of the rate the calculator holds, which raises when that is
\* not a number.
ConcGetRate(r) ==
    /\ threads[r].pc = "rate"
    /\ calculators' = [calculators EXCEPT ![CalculatorOf(r)].exchange_rate =
                           get_exchange_rate(threads[r].input.answer)]
    /\ threads' = [threads EXCEPT ![r].pc =
                       IF IsNumber(calculators'[CalculatorOf(r)].exchange_rate)
                       THEN "extract" ELSE "raised"]
    /\ rate_fetches' = rate_fetches + 1
    /\ UNCHANGED <<exchange_rate, call, batch_vars, single_vars, page_fetches,
                   history_rows>>

\* The extraction (the GET of the page), the manual overrides (none) and the
\* service fee.
ConcExtract(r) ==
    /\ threads[r].pc = "extract"
    /\ \E package_info \in { PackageInfoFor(threads[r].input.buyee_link,
                                             threads[r].input.fetched,
                                             Manual(0, 0, 0, 0, 0)) } :
        threads' = [threads EXCEPT ![r] =
                       [pc |-> "quote", input |-> threads[r].input,
                        package_info |-> package_info]]
    /\ page_fetches' = page_fetches + 1
    /\ UNCHANGED <<exchange_rate, call, batch_vars, single_vars, rate_fetches,
                   history_rows, calculators>>

\* The shipping quote and the conversions at self.exchange_rate: the LandedCost
\* returned to the handler.  A rate that is not a number by now raises at the
\* first product with it.
ConcReturn(r) ==
    /\ threads[r].pc = "quote"
    /\ IF ~IsNumber(calculators[CalculatorOf(r)].exchange_rate)
       THEN threads' = [threads EXCEPT ![r].pc = "raised"]
       ELSE
       \E landed_cost \in
            { LandedCostOf(calculators[CalculatorOf(r)].exchange_rate,
                           threads[r].package_info,
                           estimate_international_shipping(
                               threads[r].package_info.weight_kg,
                               threads[r].package_info.length_cm,
                               threads[r].package_info.width_cm,
                               threads[r].package_info.height_cm),
                           threads[r].input.shipping_method) } :
        threads' = [threads EXCEPT ![r] =
                       [pc |-> "name", input |-> threads[r].input,
                        package_info |-> threads[r].package_info,
                        landed_cost |-> landed_cost]]
    /\ UNCHANGED <<exchange_rate, call, batch_vars, single_vars, effect_vars, calculators>>

\* The handler's second extraction, for the item name: the page is fetched
\* again and answers whatever it answers now; the result dict is built.
ConcName(r) ==
    /\ threads[r].pc = "name"
    /\ \E again \in { Fetch(FALSE, EmptyPage), Fetch(TRUE, ConcPage), Fetch(TRUE, EmptyPage) } :
       \E named \in { extract_package_info(threads[r].input.buyee_link, again) } :
       \E result \in CalculateResults(threads[r].input.buyee_link,
                        IF named.raised THEN <<>> ELSE named.info.item_name,
                        threads[r].input.shipping_method, threads[r].landed_cost) :
        threads' = [threads EXCEPT ![r] =
                       [pc |-> IF threads[r].input.save_to_db THEN "add" ELSE "respond",
                        input |-> threads[r].input,
                        package_info |-> threads[r].package_info,
                        landed_cost |-> threads[r].landed_cost,
                        result |-> result]]
    /\ page_fetches' = page_fetches + 1
    /\ UNCHANGED <<exchange_rate, call, batch_vars, single_vars, rate_fetches,
                   history_rows, calculators>>

\* `if save_to_db:` db.session.add(calc_history)
ConcAdd(r) ==
    /\ threads[r].pc = "add"
    /\ threads' = [threads EXCEPT ![r].pc = "commit"]
    /\ history_rows' = history_rows + 1
    /\ UNCHANGED <<exchange_rate, call, batch_vars, single_vars, page_fetches,
                   rate_fetches, calculators>>

\* db.session.commit(): it returns, or raises and is caught; the handler goes on.
ConcCommit(r) ==
    /\ threads[r].pc = "commit"
    /\ threads' = [threads EXCEPT ![r].pc = "respond"]
    /\ UNCHANGED <<exchange_rate, call, batch_vars, single_vars, effect_vars, calculators>>

\* return jsonify(result)
ConcRespond(r) ==
    /\ threads[r].pc = "respond"
    /\ threads' = [threads EXCEPT ![r] =
                       [pc |-> "done", input |-> threads[r].input,
                        package_info |-> threads[r].package_info,
                        landed_cost |-> threads[r].landed_cost,
                        response |-> [status |-> 200, result |-> threads[r].result]]]
    /\ UNCHANGED <<exchange_rate, call, batch_vars, single_vars, effect_vars, calculators>>

\* The handler's except: calculate_landed_cost raised, the answer is 500.
ConcFail(r) ==
    /\ threads[r].pc = "raised"
    /\ threads' = [threads EXCEPT ![r] =
                       [pc |-> "failed", input |-> threads[r].input,
                        response |-> [status |-> 500, success |-> FALSE,
                                      error |-> FormatError(
                                          calculators[CalculatorOf(r)].exchange_rate)]]]
    /\ UNCHANGED <<exchange_rate, call, batch_vars, single_vars, effect_vars, calculators>>

ConcNext ==
    \/ \E r \in Requests : ConcConstruct(r)
    \/ \E r \in Requests : ConcGetRate(r)
    \/ \E r \in Requests : ConcExtract(r)
    \/ \E r \in Requests : ConcReturn(r)
    \/ \E r \in Requests : ConcName(r)
    \/ \E r \in Requests : ConcAdd(r)
    \/ \E r \in Requests : ConcCommit(r)
    \/ \E r \in Requests : ConcRespond(r)
    \/ \E r \in Requests : ConcFail(r)

SpecConc == Init /\ [][ConcNext]_vars

\* The calculator's pure methods, called with inputs from the bounded sets.
CalcNext ==
    \/ CallDetectCategory
    \/ CallServiceFee
    \/ CallCustoms
    \/ CallShipping
    \/ CallConsolidated
    \/ CallExtract

SpecCalc == Init /\ [][CalcNext]_vars

Next ==
    \/ LandedCostGetRate
    \/ LandedCostExtract
    \/ CalculateBegin
    \/ CalculateGetRate
    \/ CalculateExtract
    \/ CalculateName
    \/ CalculateAdd
    \/ CalculateCommit
    \/ CalculateRespond
    \/ BatchBegin
    \/ BatchGetRate
    \/ BatchLinkNotString
    \/ BatchSkipBlank
    \/ BatchLinkFails
    \/ BatchLinkExtracted
    \/ BatchLinkGetRate
    \/ BatchLinkSucceeds
    \/ BatchRespond

Spec == Init /\ [][Next]_vars

\* ================================================================= claims
\* The call a claim is about has returned.
Called(op) == call.op = op /\ call.at = "returned"

\* ------------------------------------------------------------------- C1
\* The percentage (in 1/10000) the claim assigns to an item price in 1/100 JPY.
BracketRate(p) == IF p < Yen(9000) THEN 473 ELSE IF p < Yen(10000) THEN 780 ELSE 717

\* C1: calculate_buyee_service_fee(p) is a whole number of JPY and the nearest
\* one to the bracket's percentage of p: 4.73% below 9,000, 7.8% from 9,000 to
\* below 10,000, 7.17% from 10,000 on (so it is within half a JPY of it).
C1_FeeBrackets ==
    Called("calculate_buyee_service_fee") =>
        LET p == call.args[1]
            diff == call.ret * 10000 - p * BracketRate(p)
        IN  /\ call.ret % Yen(1) = 0
            /\ -(5000 * Yen(1)) <= diff /\ diff <= 5000 * Yen(1)

\* 9,000 JPY is charged in the middle bracket: 7.8% of 9,000 is 702.
C1_Witness ==
    /\ Called("calculate_buyee_service_fee")
    /\ call.args[1] = Yen(9000)
    /\ call.ret = Yen(702)

\* ------------------------------------------------------------------- C2
\* C2: the fee is 425 JPY for 8,980, 725 JPY for 9,500 and 1,075 JPY for 15,000.
C2_ObservedFees ==
    Called("calculate_buyee_service_fee") =>
        /\ call.args[1] = Yen(8980) => call.ret = Yen(425)
        /\ call.args[1] = Yen(9500) => call.ret = Yen(725)
        /\ call.args[1] = Yen(15000) => call.ret = Yen(1075)

\* ------------------------------------------------------------------- C3
\* C3: calculate_us_customs(V) is (0.15 * V, 5.00 USD) for every V > 0 and
\* (0, 0) for V = 0.
C3_Customs ==
    Called("calculate_us_customs") =>
        LET v == call.args[1]
        IN  IF DecPositive(v)
            THEN /\ DecMul(Usd(20), call.ret[1]) = DecMul(Usd(3), v)
                 /\ call.ret[2] = Usd(5)
            ELSE call.ret = <<Usd(0), Usd(0)>>

\* A declared value of 0.000001 USD still owes duty, 0.00000015 USD, and the
\* processing fee.
C3_Witness ==
    /\ Called("calculate_us_customs")
    /\ call.args[1] = Decimal(1, 6)
    /\ call.ret = <<Decimal(15, 8), Usd(5)>>

\* ------------------------------------------------------------------- C4
\* C4: in calculate_landed_cost the customs base is the item price alone: at the
\* customs computation declared_value_jpy equals item_price_jpy, after
\* extraction and after a manual price override, and the duty returned is
\* 0.15 * item_price_jpy * exchange_rate, whatever the domestic shipping, the
\* service fee and the international shipping are.  The same holds of every
\* landed cost a batch request has computed.
C4_CustomsBase ==
    /\ Called("calculate_landed_cost") =>
        /\ call.package_info.declared_value_jpy = call.package_info.item_price_jpy
        /\ call.ret.item_price_jpy = Jpy(call.package_info.item_price_jpy)
        /\ DecMul(Usd(20), call.ret.us_customs_duty_usd)
               = DecMul(Usd(3), DecMul(call.ret.item_price_jpy, Rate(exchange_rate)))
    /\ \A i \in 1..Len(package_infos) :
        LET landed_cost == package_infos[i].landed_cost
        IN  DecMul(Usd(20), landed_cost.us_customs_duty_usd)
                = DecMul(Usd(3), DecMul(landed_cost.item_price_jpy,
                                        Rate(landed_cost.exchange_rate)))

\* A manual price of 12,000 JPY replaces an extracted 9,500 JPY on a Rakuma
\* item with domestic shipping and a service fee: the duty is 15% of 12,000 JPY.
C4_Witness ==
    /\ Called("calculate_landed_cost")
    /\ call.args[2].ok /\ call.args[2].page.meta = Yen(9500)
    /\ call.args[5].price_jpy = Yen(12000)
    /\ call.ret.item_price_jpy = Jpy(Yen(12000))
    /\ DecPositive(call.ret.domestic_shipping_jpy)
    /\ DecPositive(call.ret.buyee_service_fee_jpy)
    /\ call.ret.us_customs_duty_usd = DecMul(Jpy(Yen(1800)), Rate(exchange_rate))

\* ------------------------------------------------------------------- C5
\* The break table of the claim, on a chargeable weight.  Above 2 kg a weight
\* that a sum of floats left one bit off is charged as the weight it stands for.
\* The excess is a whole number of mg, charged 3,000 JPY per kg.
BreakTable(cw) ==
    CASE cw <= Grams(300)  -> Jpy(Yen(5400))
      [] cw > Grams(300) /\ cw <= Grams(500)   -> Jpy(Yen(6500))
      [] cw > Grams(500) /\ cw <= Grams(1000)  -> Jpy(Yen(8278))
      [] cw > Grams(1000) /\ cw <= Grams(1500) -> Jpy(Yen(10000))
      [] cw > Grams(1500) /\ cw <= Grams(2000) -> Jpy(Yen(12600))
      [] OTHER -> DecAdd(Usd(12600),
                         DecMul(Usd(3000),
                                Decimal((NearestWeight(cw) - Grams(2000)) \div 4, 6)))

\* C5: the FedEx Air rate is the break table's rate of
\* max(weight, L*W*H/5000), the upper bounds inclusive; for 30 x 20 x 15 cm
\* and 1.0 kg the chargeable weight is 1.8 kg and the rate 12,600 JPY.
C5_ShippingBands ==
    Called("estimate_international_shipping") =>
        LET weight == call.args[1]
            volume == (Grams(1) * (call.args[2] * call.args[3] * call.args[4])) \div 5
            cw == IF weight >= volume THEN weight ELSE volume
        IN  /\ call.ret["FedEx Air"].cost_jpy = BreakTable(cw)
            /\ call.args = <<Grams(1000), 30, 20, 15>> =>
                   /\ cw = Grams(1800)
                   /\ call.ret["FedEx Air"].cost_jpy = Jpy(Yen(12600))

C5_Witness ==
    /\ Called("estimate_international_shipping")
    /\ call.args = <<Grams(1000), 30, 20, 15>>
    /\ call.ret["FedEx Air"].cost_jpy = Jpy(Yen(12600))

\* ------------------------------------------------------------------- C6
CategoryOrder ==
    <<"footwear", "outerwear", "pants", "t_shirt", "hoodie", "dress", "accessories", "jewelry">>

KeywordsOf(category) ==
    CASE category = "footwear"    -> Keywords_footwear
      [] category = "outerwear"   -> Keywords_outerwear
      [] category = "pants"       -> Keywords_pants
      [] category = "t_shirt"     -> Keywords_t_shirt
      [] category = "hoodie"      -> Keywords_hoodie
      [] category = "dress"       -> Keywords_dress
      [] category = "accessories" -> Keywords_accessories
      [] category = "jewelry"     -> Keywords_jewelry

\* The categories (by position in the order) a keyword of which occurs in the text.
Matching(text) == { i \in 1..Len(CategoryOrder) : AnyIn(KeywordsOf(CategoryOrder[i]), text) }

\* C6: detect_clothing_category returns one of the nine categories: the first
\* in the fixed order with a keyword in the lowercased text, general if none;
\* text with both "boot" and "jacket" is footwear.
C6_Classifier ==
    Called("detect_clothing_category") =>
        LET text == Lower(call.args[1] \o <<" ">> \o call.args[2])
            hits == Matching(text)
        IN  /\ call.ret \in SeqRange(CategoryOrder) \cup {"general"}
            /\ hits = {} => call.ret = "general"
            /\ hits # {} =>
                   \E i \in hits : /\ call.ret = CategoryOrder[i]
                                   /\ \A j \in hits : i <= j
            /\ (Contains(text, <<"b","o","o","t">>) /\ Contains(text, <<"j","a","c","k","e","t">>))
                   => call.ret = "footwear"

\* "JACKET Boot": both keywords, in mixed case, outerwear's first in the text.
C6_Witness ==
    /\ Called("detect_clothing_category")
    /\ call.args[1] = <<"J","A","C","K","E","T"," ","B","o","o","t">>
    /\ call.ret = "footwear"

\* ------------------------------------------------------------------- C7
RECURSIVE SumField(_, _)
\* The sum of the positive values of a field over the packages.
SumField(ps, field) ==
    IF ps = <<>> THEN 0
    ELSE (IF Head(ps)[field] > 0 THEN Head(ps)[field] ELSE 0) + SumField(Tail(ps), field)

IsMaxField(value, ps, field) ==
    /\ \E i \in 1..Len(ps) : ps[i][field] = value
    /\ \A i \in 1..Len(ps) : ps[i][field] <= value

AllDimensionsKnown(ps) ==
    \A i \in 1..Len(ps) : ps[i].length_cm > 0 /\ ps[i].width_cm > 0 /\ ps[i].height_cm > 0

\* The weight is the float sum of the given sum: the sum itself, or a float next
\* to it when the addends are not all binary fractions.
IsFloatSumOf(weight, sum, ps) ==
    /\ NearestWeight(weight) = sum
    /\ (\A i \in 1..Len(ps) : IsDyadic(ps[i].weight_kg)) => weight = sum

\* C7: for packages that all have known dimensions, the aggregate is the sum
\* of the positive weights (as floats add up), the maximum length, the maximum
\* width and the sum of the heights; weights 0.4, 0.6, 0.3 give 1.3 kg; no
\* packages give (0,0,0,0).
C7_Consolidated ==
    Called("calculate_consolidated_shipping") =>
        LET ps == call.args[1]
        IN  /\ ps = <<>> => call.ret = <<0, 0, 0, 0>>
            /\ (ps # <<>> /\ AllDimensionsKnown(ps)) =>
                   /\ IsFloatSumOf(call.ret[1], SumField(ps, "weight_kg"), ps)
                   /\ IsMaxField(call.ret[2], ps, "length_cm")
                   /\ IsMaxField(call.ret[3], ps, "width_cm")
                   /\ call.ret[4] = SumField(ps, "height_cm")
            /\ (ps # <<>> /\ AllDimensionsKnown(ps)
                /\ [i \in 1..Len(ps) |-> ps[i].weight_kg] = <<Grams(400), Grams(600), Grams(300)>>)
                   => NearestWeight(call.ret[1]) = Grams(1300)

C7_Witness ==
    /\ Called("calculate_consolidated_shipping")
    /\ Len(call.args[1]) = 3
    /\ [i \in 1..3 |-> call.args[1][i].weight_kg] = <<Grams(400), Grams(600), Grams(300)>>
    /\ call.ret = <<Grams(1300), 35, 30, 23>>

\* ------------------------------------------------------------------- C8
\* The four-band table of the claim.
BandTriple(total_weight) ==
    CASE total_weight < Grams(500) -> <<30, 20, 15>>
      [] total_weight >= Grams(500) /\ total_weight < Grams(1000) -> <<40, 30, 20>>
      [] total_weight >= Grams(1000) /\ total_weight < Grams(2000) -> <<50, 40, 25>>
      [] OTHER -> <<60, 50, 30>>

MaxField(ps, field) ==
    IF \E i \in 1..Len(ps) : ps[i][field] > 0
    THEN CHOOSE v \in { ps[i][field] : i \in 1..Len(ps) } : IsMaxField(v, ps, field)
    ELSE 0

\* C8: for a non-empty list, when an aggregate dimension is zero the whole
\* triple is the fixed triple of the band of the total weight returned;
\* otherwise the aggregates are returned unchanged; the returned dimensions
\* are all positive.
C8_DimensionFallback ==
    (Called("calculate_consolidated_shipping") /\ call.args[1] # <<>>) =>
        LET ps == call.args[1]
            agg == <<MaxField(ps, "length_cm"), MaxField(ps, "width_cm"),
                     SumField(ps, "height_cm")>>
            dims == <<call.ret[2], call.ret[3], call.ret[4]>>
        IN  /\ (agg[1] = 0 \/ agg[2] = 0 \/ agg[3] = 0)
                   => /\ dims = BandTriple(call.ret[1])
                      /\ NearestWeight(call.ret[1]) = SumField(ps, "weight_kg")
            /\ (agg[1] # 0 /\ agg[2] # 0 /\ agg[3] # 0) => dims = agg
            /\ \A i \in 1..3 : dims[i] > 0

\* One package of 0.5 kg and unknown dimensions: the second band's triple.
C8_Witness ==
    /\ Called("calculate_consolidated_shipping")
    /\ call.args[1] = <<Package(Grams(500), 0, 0, 0)>>
    /\ call.ret = <<Grams(500), 40, 30, 20>>

\* ------------------------------------------------------------------- C9
\* The batch request has been answered with the consolidated response.
ConsolidatedResponse == response.status = 200 /\ response.consolidated

\* C9: the consolidation fee of a consolidated batch is 500 JPY for every
\* package after the first, 500 * (n - 1), n the number of packages entering
\* the consolidated shipment (the links that succeeded), whatever their
\* weights, dimensions and prices; its USD figure is that at the batch's rate.
C9_ConsolidationFee ==
    ConsolidatedResponse =>
        /\ consolidation.packages = Len(Successes)
        /\ consolidation.consolidation_fee_jpy = Yen(500) * (Len(Successes) - 1)
        /\ response.consolidation_fee_usd
               \in Round2(DecMul(Jpy(Yen(500) * (Len(Successes) - 1)),
                                 Rate(batch_exchange_rate)))

\* Three packages, not all alike: 1,000 JPY.
C9_Witness ==
    /\ ConsolidatedResponse
    /\ Len(Successes) = 3
    /\ \E i, j \in 1..3 : package_infos[i].info # package_infos[j].info
    /\ consolidation.consolidation_fee_jpy = Yen(1000)

\* ------------------------------------------------------------------- C10
\* The quote table of the package the call priced.
QuotesOf(package_info) ==
    estimate_international_shipping(package_info.weight_kg, package_info.length_cm,
                                    package_info.width_cm, package_info.height_cm)

\* C10: calculate_landed_cost prices a requested method that is not one of the
\* quoted carriers as "EMS": the shipping_method and the international shipping
\* cost returned are EMS's; a quoted carrier is priced as requested.
C10_MethodFallback ==
    Called("calculate_landed_cost") =>
        LET requested == call.args[4]
            priced == IF requested \in Carriers THEN requested ELSE "EMS"
        IN  /\ call.ret.shipping_method = priced
            /\ call.ret.international_shipping_jpy = QuotesOf(call.package_info)[priced].cost_jpy

\* "Surface" on a 1.8 kg package: EMS at 75% of the 12,600 JPY base rate.
C10_Witness ==
    /\ Called("calculate_landed_cost")
    /\ call.args[4] = "Surface"
    /\ call.ret.shipping_method = "EMS"
    /\ call.package_info.weight_kg = Grams(1800)
    /\ call.ret.international_shipping_jpy = Jpy(Yen(9450))

\* ------------------------------------------------------------------- C11
\* The single-link request has been answered with a result.
Calculated == calculate_response.status = 200

\* C11: in every successful response of the single-link and batch operations the
\* shipping_method field names the carrier actually used, the one whose quote is
\* the response's international shipping cost (the shipping_method of the
\* LandedCost), also when the requested method was not a quoted carrier.
C11_ReportedCarrier ==
    /\ Calculated =>
        calculate_response.result.shipping_method = calculate_locals.landed_cost.shipping_method
    /\ \A k \in 1..Len(package_infos) :
        Successes[k].shipping_method = package_infos[k].landed_cost.shipping_method

\* ------------------------------------------------------------------- C12
\* The totals of a LandedCost are the sums of its lines.
TotalsAddUp(landed_cost) ==
    /\ landed_cost.total_jpy =
           DecAdd(DecAdd(landed_cost.item_price_jpy, landed_cost.domestic_shipping_jpy),
                  DecAdd(landed_cost.buyee_service_fee_jpy,
                         landed_cost.international_shipping_jpy))
    /\ landed_cost.total_usd =
           DecAdd(DecAdd(DecAdd(landed_cost.item_price_usd, landed_cost.domestic_shipping_usd),
                         DecAdd(landed_cost.buyee_service_fee_usd,
                                landed_cost.international_shipping_usd)),
                  DecAdd(landed_cost.us_customs_duty_usd, landed_cost.us_customs_tax_usd))

\* C12: every LandedCost calculate_landed_cost returns, to a direct caller and to
\* either handler, has total_jpy = item price + domestic shipping + service fee
\* + international shipping (no customs) and total_usd = the six USD lines,
\* duty and processing fee included.
C12_Totals ==
    /\ Called("calculate_landed_cost") => TotalsAddUp(call.ret)
    /\ Calculated => TotalsAddUp(calculate_locals.landed_cost)
    /\ \A i \in 1..Len(package_infos) : TotalsAddUp(package_infos[i].landed_cost)

\* A Rakuma item with every line positive: price 9,500, domestic shipping,
\* service fee 741, a quote, duty and the 5 USD processing fee.
C12_Witness ==
    /\ Called("calculate_landed_cost")
    /\ call.ret.item_price_jpy = Jpy(Yen(9500))
    /\ DecPositive(call.ret.domestic_shipping_jpy)
    /\ call.ret.buyee_service_fee_jpy = Jpy(Yen(741))
    /\ DecPositive(call.ret.international_shipping_jpy)
    /\ DecPositive(call.ret.us_customs_duty_usd)
    /\ call.ret.us_customs_tax_usd = Usd(5)
    /\ DecPositive(DecSub(call.ret.total_usd,
                           DecAdd(DecMul(call.ret.total_jpy, Rate(call.ret.exchange_rate)),
                                  Usd(5))))

\* ------------------------------------------------------------------- C13
\* What the rate source's answer is worth: its USD rate when the GET succeeded
\* with a good status and a JSON body carrying rates.USD, else 0.0067.
RateOf(answer) ==
    IF answer.error # "none" \/ answer.status_code >= 400 \/ ~answer.json
       \/ ~answer.rates \/ answer.usd = NoKey
    THEN 67 ELSE answer.usd

\* C13: one call of calculate_landed_cost reads one answer of the rate source;
\* the rate it yields is the one stored in the calculator and in the record,
\* whatever page was fetched, and every JPY line is converted with it: each
\* *_usd = *_jpy * exchange_rate, and the duty is 15% of the declared value
\* converted at the same rate.
C13_OneRate ==
    Called("calculate_landed_cost") =>
        LET rate == RateOf(call.args[3])
            r == call.ret
        IN  /\ r.exchange_rate = rate
            /\ exchange_rate = rate
            /\ r.item_price_usd = DecMul(r.item_price_jpy, Rate(rate))
            /\ r.domestic_shipping_usd = DecMul(r.domestic_shipping_jpy, Rate(rate))
            /\ r.buyee_service_fee_usd = DecMul(r.buyee_service_fee_jpy, Rate(rate))
            /\ r.international_shipping_usd = DecMul(r.international_shipping_jpy, Rate(rate))
            /\ DecMul(Usd(20), r.us_customs_duty_usd)
                   = DecMul(Usd(3), DecMul(Jpy(call.package_info.declared_value_jpy),
                                           Rate(rate)))

\* The source answers 0.0070 for a Rakuma item of 9,500 JPY: 66.50 USD, and
\* the quote at the same rate.
C13_Witness ==
    /\ Called("calculate_landed_cost")
    /\ call.args[3] = RateResponse(200, TRUE, TRUE, 70)
    /\ call.ret.item_price_jpy = Jpy(Yen(9500))
    /\ call.ret.item_price_usd = Decimal(665, 1)
    /\ DecPositive(call.ret.domestic_shipping_usd)
    /\ call.ret.international_shipping_usd
           = DecMul(call.ret.international_shipping_jpy, Rate(70))

\* ------------------------------------------------------------------- C14
\* C14: in every successful entry of a batch response the exchange_rate reported
\* is the rate that entry's USD figures were computed with (the rate of its
\* LandedCost), whatever the rate source answered during the batch.
C14_BatchEntryRate ==
    \A k \in 1..Len(package_infos) :
        Successes[k].exchange_rate = package_infos[k].landed_cost.exchange_rate

\* ------------------------------------------------------------------- C15
\* The rate source failed in one of the ways named: the GET raised, the status
\* is an error, the body is not JSON, or it lacks `rates` or `USD`.
RateSourceFailed(answer) ==
    \/ answer.error \in {"ConnectionError", "Timeout"}
    \/ answer.status_code >= 400
    \/ ~answer.json
    \/ ~answer.rates
    \/ answer.usd = NoKey

\* C15: when the rate source fails, get_exchange_rate returns 0.0067 and the
\* landed-cost computation goes on with it: the call returns a LandedCost at
\* that rate, and the single-link handler answers with a result at that rate.
C15_RateFallback ==
    /\ Called("calculate_landed_cost") /\ RateSourceFailed(call.args[3]) =>
        /\ exchange_rate = 67
        /\ call.ret.exchange_rate = 67
        /\ call.ret.total_usd =
               DecAdd(DecMul(call.ret.total_jpy, Rate(67)),
                      DecAdd(call.ret.us_customs_duty_usd, call.ret.us_customs_tax_usd))
    /\ Calculated /\ RateSourceFailed(calculate_locals.answer) =>
        calculate_response.result.exchange_rate = 67

\* An error status with a body that carries a rate: the 9,500 JPY item is still
\* priced, at 0.0067.
C15_Witness ==
    /\ Called("calculate_landed_cost")
    /\ call.args[3] = RateResponse(500, TRUE, TRUE, 70)
    /\ call.ret.item_price_jpy = Jpy(Yen(9500))
    /\ call.ret.item_price_usd = Decimal(6365, 2)

\* ------------------------------------------------------------------- C16
\* extract_package_info has returned the PackageInfo of an item page.
ExtractedItem ==
    Called("extract_package_info") /\ ~call.ret.raised /\ is_item_link(call.args[1])

\* The prices structured data can yield: in each JSON-LD block the first
\* in-range offer price, if float() accepted every offer before it.
StructuredPrices(page) ==
    LET positions == UNION { { <<b, i>> : i \in DOMAIN page.ld[b] } : b \in DOMAIN page.ld }
        first_valid == { x \in positions :
            /\ InRange(page.ld[x[1]][x[2]])
            /\ \A j \in 1..(x[2] - 1) :
                page.ld[x[1]][j] # BadNumber /\ ~InRange(page.ld[x[1]][j]) }
    IN  { page.ld[x[1]][x[2]] : x \in first_valid }

\* The in-range values of a sequence of candidates, in order.
InRangeOf(prices) == SelectSeq(prices, InRange)

\* C16: the item price comes from the first stage, in the order structured data,
\* price meta attribute, data-price attributes, marketplace selectors, free
\* text, that yields a price in [100, 10,000,000]; a later stage is read only
\* when every earlier one yielded none.  A valid structured-data price wins over
\* a conflicting free-text price.
C16_FallbackChain ==
    ExtractedItem =>
        LET buyee_link == call.args[1]
            page == call.args[2].page
            price == call.ret.info.item_price_jpy
        IN  IF StructuredPrices(page) # {} THEN price \in StructuredPrices(page)
            ELSE IF InRange(page.meta) THEN price = page.meta
            ELSE IF InRangeOf(page.data) # <<>> THEN price = Head(InRangeOf(page.data))
            ELSE IF PriceFromSelectors(buyee_link, page) # 0
                 THEN price = PriceFromSelectors(buyee_link, page)
            ELSE price = PriceFromText(buyee_link, page.text)

\* Structured data says 8,980 JPY, the free text 15,000 JPY: 8,980 it is.
C16_Witness ==
    /\ ExtractedItem
    /\ call.args[2].page.ld = << <<Yen(8980)>> >>
    /\ call.args[2].page.text = <<Written(Yen(15000), TRUE)>>
    /\ call.ret.info.item_price_jpy = Yen(8980)

\* ------------------------------------------------------------------- C17
\* C17: every PackageInfo extract_package_info returns, for an item link or a
\* shipment link, has item_price_jpy 0 or within [100, 10,000,000] JPY.
C17_PriceRange ==
    Called("extract_package_info") /\ ~call.ret.raised =>
        \/ call.ret.info.item_price_jpy = 0
        \/ InRange(call.ret.info.item_price_jpy)

\* ------------------------------------------------------------------- C18
\* The marketplace minimum the claim names, Rakuma before Yahoo before Mercari.
MarketMinimum(buyee_link) ==
    IF "rakuma" \in buyee_link.words THEN Yen(2000)
    ELSE IF "yahoo" \in buyee_link.words \/ "auction" \in buyee_link.words THEN Yen(5000)
    ELSE Yen(1000)

\* No stage before the free-text one yields a price.
OnlyFreeText(buyee_link, page) ==
    /\ StructuredPrices(page) = {}
    /\ ~InRange(page.meta)
    /\ InRangeOf(page.data) = <<>>
    /\ PriceFromSelectors(buyee_link, page) = 0

\* C18: when the free-text stage decides, with C the in-range candidates (not
\* empty) and m the marketplace minimum, the item price is the largest
\* candidate >= m, or the largest of C when none is >= m; the declared value
\* is the same number.
C18_FreeTextMaximum ==
    ExtractedItem /\ OnlyFreeText(call.args[1], call.args[2].page) =>
        LET candidates == SeqRange(InRangeOf(ItemPriceMatches(call.args[2].page.text)))
            kept == {c \in candidates : c >= MarketMinimum(call.args[1])}
            price == call.ret.info.item_price_jpy
        IN  candidates # {} =>
                /\ price \in (IF kept # {} THEN kept ELSE candidates)
                /\ \A c \in (IF kept # {} THEN kept ELSE candidates) : c <= price
                /\ call.ret.info.declared_value_jpy = price

\* A Rakuma page with 800 and 1,500 JPY in its text: the filter at 2,000
\* removes both, and the price is 1,500.
C18_Witness ==
    /\ ExtractedItem
    /\ "rakuma" \in call.args[1].words
    /\ call.args[2].page.text = <<Written(Yen(800), TRUE), Written(Yen(1500), TRUE)>>
    /\ call.ret.info.item_price_jpy = Yen(1500)
    /\ call.ret.info.declared_value_jpy = Yen(1500)

\* ------------------------------------------------------------------- C19
\* A weight as the page states it, in kilograms: w kg is w, g grams is g / 1000
\* (the number is written in thousandths, a thousandth of a gram is 4 units of
\* weight).
StatedWeight(match) ==
    IF match.unit = "kg" THEN 4000 * match.num ELSE 4 * match.num

\* C19: extraction normalises the page's weight to kilograms: when the first
\* weight the page states is, in kilograms, within [0.01, 50], weight_kg of the
\* returned PackageInfo is that weight (w for w kg, g / 1000 for g grams).
C19_WeightNormalised ==
    Called("extract_package_info") /\ ~call.ret.raised
            /\ call.args[2].page.weights # <<>> =>
        LET stated == StatedWeight(Head(call.args[2].page.weights))
        IN  Grams(10) <= stated /\ stated <= Grams(50000) =>
                call.ret.info.weight_kg = stated

\* ------------------------------------------------------------------- C20
\* C20: calculate_landed_cost on a shipment link whose page yields no price, no
\* weight and no dimensions (and no manual values) does not raise, and the
\* package it quotes is the general category's: 0.4 kg, 35 x 25 x 10 cm, with
\* the shipping quote that of those figures; no zero weight or dimension
\* reaches the rate model.
C20_ShipmentFallback ==
    /\ Called("calculate_landed_cost")
    /\ ~is_item_link(call.args[1])
    /\ call.args[2] = [ok |-> TRUE, page |-> EmptyPage]
    /\ call.args[5] = Manual(0, 0, 0, 0, 0)
    => /\ call.package_info.weight_kg = estimate_weight_from_category("general")
       /\ <<call.package_info.length_cm, call.package_info.width_cm,
            call.package_info.height_cm>>
              = estimate_package_dimensions_from_category("general")
       /\ call.ret.international_shipping_jpy =
              estimate_international_shipping(
                  estimate_weight_from_category("general"), 35, 25, 10
              )[call.ret.shipping_method].cost_jpy

\* ------------------------------------------------------------------- C21
\* C21: when the fetch of the link's page fails and no manual value is given,
\* calculate_landed_cost returns no LandedCost (the failure reaches the caller),
\* and the single-link operation answers with an error, not a result.
C21_FetchFailurePropagates ==
    /\ Called("calculate_landed_cost") /\ ~call.args[2].ok
            /\ call.args[5] = Manual(0, 0, 0, 0, 0) =>
        "total_usd" \notin DOMAIN call.ret
    /\ calculate_locals.link = "string" /\ "fetched" \in DOMAIN calculate_locals
            /\ ~calculate_locals.fetched.ok =>
        calculate_response.status # 200

\* ------------------------------------------------------------------- C22
\* The elements of a request's links that are not blank, in the order given.
NonBlank(links) == SelectSeq(links, LAMBDA l : ~l.blank)

\* The batch loop is running or has answered.
BatchRunning == pc \in {"loop", "landed_cost", "extract"} \/ response.status = 200

\* C22: a batch processes its non-blank links one after the other in the order
\* given: results holds exactly one entry per non-blank link already passed, in
\* that order, a failed link's entry having success = false and a message; the
\* batch response reports success with one entry per non-blank link; and no
\* failure while processing a link aborts the batch: a request that passed the
\* validation is answered 500 only when its own exchange rate is not a number
\* and the consolidated branch is taken, never because of one of its links.
C22_BatchIsolation ==
    /\ BatchRunning =>
            LET done == NonBlank(SubSeq(request.links, 1, next_link - 1))
            IN  /\ Len(results) = Len(done)
                /\ \A i \in 1..Len(done) :
                    /\ results[i].link = done[i].link
                    /\ ~results[i].success => "error" \in DOMAIN results[i]
                    /\ results[i].success => "total_usd" \in DOMAIN results[i]
    /\ response.status = 200 =>
            /\ response.success
            /\ response.count = Len(NonBlank(request.links))
    /\ response.status \notin {0, 200, 400} /\ request.body = "object" =>
            /\ ~IsNumber(batch_exchange_rate)
            /\ request.consolidated /\ Len(package_infos) > 1

\* ------------------------------------------------------------------- C23
\* The single-link request that was answered lacks a destination address or a
\* ZIP, or its link is empty after trimming.  A body that is JSON null has
\* neither field.
InvalidSingle ==
    /\ calculate_response # NoResponse
    /\ \/ calculate_locals.body = "null"
       \/ calculate_locals.link = "blank"
       \/ ~calculate_locals.destination_address
       \/ ~calculate_locals.destination_zip

\* The batch request that arrived lacks a destination address or a ZIP, or
\* its list of links is empty.
InvalidBatch ==
    /\ request # NoRequest
    /\ \/ request.body = "null"
       \/ ~request.destination_address
       \/ ~request.destination_zip
       \/ request.links = <<>>

\* Nothing has been fetched or written.
NoEffects == page_fetches = 0 /\ rate_fetches = 0 /\ history_rows = 0

\* C23: a request without a destination address or ZIP (single-link: also with
\* a link that is empty after trimming; batch: also with an empty link list) is
\* rejected with a validation error, status 400, before any work: no page
\* fetch, no exchange-rate fetch and no history row, and the batch loop is
\* never entered.
C23_ValidationFirst ==
    /\ InvalidSingle =>
        /\ calculate_response.status = 400
        /\ NoEffects
        /\ exchange_rate = None
    /\ InvalidBatch =>
        /\ response.status = 400
        /\ pc = "idle"
        /\ NoEffects
        /\ batch_exchange_rate = None
        /\ results = <<>>

\* ------------------------------------------------------------------- C24
\* Manual values for the price, the weight and every dimension.
AllManual(manual) ==
    /\ manual.price_jpy > 0
    /\ manual.weight_kg > 0
    /\ manual.length_cm > 0 /\ manual.width_cm > 0 /\ manual.height_cm > 0

\* C24: with manual price, weight and dimensions, calculate_landed_cost makes no
\* page fetch, and its LandedCost is the one of the manual values alone: the same
\* whatever the page holds and whether or not it can be reached.
C24_ManualShortCircuit ==
    Called("calculate_landed_cost") /\ AllManual(call.args[5]) =>
        /\ page_fetches = 0
        /\ call.ret = calculate_landed_cost(call.args[1], Fetch(FALSE, EmptyPage),
                                            call.args[3], call.args[4], call.args[5])

\* ------------------------------------------------------------------- C25
\* The fields only the consolidated response has.
ConsolidationFields ==
    {"consolidated_total", "individual_total", "savings", "consolidation_fee_usd",
     "consolidated_shipping_usd"}

\* c is round(x, 2) of an amount x of either sign: a whole number of cents
\* within half a cent of x.
Rounded(c, x) ==
    /\ DecMul(c, Usd(100)).scale = 0
    /\ DecLeq(DecSub(c, x), Decimal(5, 3))
    /\ DecLeq(DecSub(x, c), Decimal(5, 3))

\* C25: a batch asked to consolidate, with more than one link extracted, reports
\* consolidated_total = the item prices + the domestic shipping + the service
\* fees of the links (USD), + the consolidation fee, + one shipping quote for the
\* aggregate weight and dimensions, + customs on the summed item price;
\* individual_total = the sum of the successful entries' totals; savings = their
\* difference.  Any other batch reports consolidated = false and none of the
\* consolidation fields.
C25_ConsolidatedTotal ==
    response.status = 200 =>
        IF request.consolidated /\ Len(Successes) > 1
        THEN LET aggregate == consolidation.aggregate
                 quotes == estimate_international_shipping(
                               aggregate[1], aggregate[2], aggregate[3], aggregate[4])
                 quote == IF request.shipping_method \in DOMAIN quotes
                          THEN quotes[request.shipping_method] ELSE quotes["EMS"]
                 items == SumOf(package_infos, LAMBDA p : p.landed_cost.item_price_usd)
                 domestic == SumOf(package_infos, LAMBDA p : p.landed_cost.domestic_shipping_usd)
                 fees == SumOf(package_infos, LAMBDA p : p.landed_cost.buyee_service_fee_usd)
                 fee == DecMul(Jpy(Yen(500) * (Len(package_infos) - 1)),
                               Rate(batch_exchange_rate))
                 shipping == DecMul(quote.cost_jpy, Rate(batch_exchange_rate))
                 customs == calculate_us_customs(items)
                 total == DecAdd(DecAdd(DecAdd(items, domestic), DecAdd(fees, fee)),
                                 DecAdd(shipping, DecAdd(customs[1], customs[2])))
                 individual == SumOf(Successes, LAMBDA r : r.total_usd)
             IN  /\ response.consolidated
                 /\ aggregate \in calculate_consolidated_shipping(
                                      [i \in 1..Len(package_infos) |-> package_infos[i].info])
                 /\ Rounded(response.consolidated_total, total)
                 /\ Rounded(response.consolidated_shipping_usd, shipping)
                 /\ Rounded(response.individual_total, individual)
                 /\ Rounded(response.savings, DecSub(individual, total))
        ELSE /\ ~response.consolidated
             /\ DOMAIN response \cap ConsolidationFields = {}

\* Two links consolidated, a third that failed: one quote instead of two, and
\* the consolidated total is below the individual one.
C25_Witness ==
    /\ ConsolidatedResponse
    /\ Len(results) = 3
    /\ Len(Successes) = 2
    /\ DecPositive(response.savings)
    /\ response.savings = DecSub(response.individual_total, response.consolidated_total)

\* ------------------------------------------------------------------- C26
\* C26: concurrent requests share no mutable state.  Whatever the interleaving,
\* the rate a request's calculator holds once fetched is the one the rate source
\* answered to that request, and the LandedCost a request returns is the one it
\* returns running alone on the same page and rate answer.
C26_NoInterference ==
    \A r \in Requests :
        /\ threads[r].pc \in {"extract", "quote", "name", "add", "commit", "respond", "done"} =>
            calculators[CalculatorOf(r)].exchange_rate
                = get_exchange_rate(threads[r].input.answer)
        /\ threads[r].pc \in {"raised", "failed"} =>
            ~IsNumber(get_exchange_rate(threads[r].input.answer))
        /\ threads[r].pc \in {"name", "add", "commit", "respond", "done"} =>
            threads[r].landed_cost
                = calculate_landed_cost(threads[r].input.buyee_link, threads[r].input.fetched,
                                        threads[r].input.answer,
                                        threads[r].input.shipping_method,
                                        Manual(0, 0, 0, 0, 0))

\* Two requests for the same page overlap, the second fetching its rate while
\* the first extracts; they are answered at different rates: 0.0067 and 0.0070.
C26_Witness ==
    /\ threads[1].pc = "done"
    /\ threads[2].pc = "quote"
    /\ threads[1].input.fetched = threads[2].input.fetched
    /\ threads[1].input.fetched.ok
    /\ threads[1].landed_cost.exchange_rate = 67
    /\ calculators[CalculatorOf(2)].exchange_rate = 70

\* ------------------------------------------------------------------- C27
RECURSIVE FirstNonZero(_)
FirstNonZero(s) == IF s = <<>> THEN 0 ELSE IF Head(s) # 0 THEN Head(s) ELSE FirstNonZero(Tail(s))

\* The first valid price of the page's structured data in document order: that
\* of the first block that has one.
FirstStructuredPrice(page) ==
    FirstNonZero([b \in 1..Len(page.ld) |-> FirstValidOffer(page.ld[b])])

\* C27: when the page's structured data holds a valid price (one offer list
\* with several entries, or several blocks), the item price extracted is the
\* first valid one in document order; a later one never replaces it.
C27_FirstStructuredPrice ==
    ExtractedItem /\ StructuredPrices(call.args[2].page) # {} =>
        call.ret.info.item_price_jpy = FirstStructuredPrice(call.args[2].page)

\* ------------------------------------------------------------------- C28
\* The dimensions of a PackageInfo.
DimensionsOf(info) == <<info.length_cm, info.width_cm, info.height_cm>>

\* C28: in item-link extraction a weight resolved from the page is returned as
\* it is, and so are dimensions resolved from the page; whichever of the two the
\* page did not yield is the estimate of the category classified from the item
\* name, the other being left alone; with both resolved the category changes
\* nothing.
C28_IndependentFallback ==
    ExtractedItem =>
        LET page == call.args[2].page
            weight == ItemWeight(page.weights)
            dims == ItemDimensions(page.dims)
            category == detect_clothing_category(page.name, <<>>)
            info == call.ret.info
        IN  /\ info.item_name = page.name
            /\ info.weight_kg = IF weight # 0 THEN weight
                                ELSE estimate_weight_from_category(category)
            /\ DimensionsOf(info) = IF dims # <<0, 0, 0>> THEN dims
                                    ELSE estimate_package_dimensions_from_category(category)

\* A dress page stating 20 x 15 x 5 cm and no weight: the dimensions stay, the
\* weight is the dress estimate, 0.5 kg.
C28_Witness ==
    /\ ExtractedItem
    /\ call.args[2].page.name = <<"D","r","e","s","s">>
    /\ call.args[2].page.weights = <<>>
    /\ DimensionsOf(call.ret.info) = <<20, 15, 5>>
    /\ call.ret.info.weight_kg = Grams(500)
    /\ estimate_package_dimensions_from_category("dress") # <<20, 15, 5>>

\* ------------------------------------------------------------------- C29
\* C29: the PackageInfo of a successful item-link extraction has a weight above
\* 0 and length, width and height above 0, and its domestic shipping fee is the
\* step function of that weight: 800 JPY below 0.3 kg, 1,000 JPY from 0.3 to
\* below 0.5 kg, 1,200 JPY from 0.5 kg on; it is never 0.
C29_ResolvedPackage ==
    ExtractedItem =>
        LET info == call.ret.info
        IN  /\ info.weight_kg > 0
            /\ info.length_cm > 0 /\ info.width_cm > 0 /\ info.height_cm > 0
            /\ info.weight_kg < Grams(300) => info.domestic_shipping_jpy = Yen(800)
            /\ Grams(300) <= info.weight_kg /\ info.weight_kg < Grams(500) =>
                   info.domestic_shipping_jpy = Yen(1000)
            /\ info.weight_kg >= Grams(500) => info.domestic_shipping_jpy = Yen(1200)
            /\ info.domestic_shipping_jpy # 0

\* A page stating "500 g": 0.5 kg is in the top tier, 1,200 JPY.
C29_Witness ==
    /\ ExtractedItem
    /\ call.args[2].page.weights = <<Wt(500, 0, "g")>>
    /\ call.ret.info.weight_kg = Grams(500)
    /\ call.ret.info.domestic_shipping_jpy = Yen(1200)

\* ------------------------------------------------------------------- C30
\* The names whose only garment word is a hoodie keyword: the keyword alone, or
\* after the word "vintage".
HoodieNames ==
    SeqRange(Keywords_hoodie)
    \cup { <<"v","i","n","t","a","g","e">> \o <<" ">> \o k : k \in SeqRange(Keywords_hoodie) }

\* C30: every hoodie keyword reaches its category: a name whose only garment
\* word is a hoodie keyword (hoodie, sweatshirt, sweater, pullover), with no
\* description, is classified hoodie; no hoodie keyword is shadowed by a keyword
\* of an earlier category that it contains.
C30_HoodieReachable ==
    Called("detect_clothing_category")
            /\ call.args[1] \in HoodieNames /\ call.args[2] = <<>> =>
        call.ret = "hoodie"

====
